---- MODULE Spec2Model ----
(***************************************************************************)
(* Asynchronous generation pipeline of the llm-service:                    *)
(*   worker_mq.py   TaskConsumer (run_consumer, _handle_message, _publish) *)
(*   llm_service.py CompletionOrchestrator (chat_with_functions)           *)
(* The consumer is one sequential coroutine: it pulls a delivery, handles  *)
(* it to the end, acknowledges it and only then pulls the next one.  Every *)
(* await on a collaborator is a position of pc.                            *)
(***************************************************************************)
EXTENDS Integers, Sequences, FiniteSets, TLC

(* ------------------------------ bounds --------------------------------- *)
\* number of tasks the upstream producer publishes
MaxTasks == 1
\* saturation point of the ghost count of retry republishes in one lineage
MaxHops == 6
\* largest x-retry-count header an upstream publisher puts on a message
MaxHeader == 5

(* ------------------------- program constants --------------------------- *)
RetryCeiling == 5
ROUTING_GENERATE == "chat.generate"
ROUTING_RETRY == "chat.generate.retry"
ROUTING_DLQ == "chat.generate.dlq"
ROUTING_GENERATED == "chat.generated"

(* --------------------------- JSON values ------------------------------- *)
JNull == [t |-> "null"]
JStr(s) == [t |-> "str", s |-> s]
JInt(i) == [t |-> "int", i |-> i]
JBool(b) == [t |-> "bool", b |-> b]
JList(q) == [t |-> "list", q |-> q]
JObj(f) == [t |-> "obj", f |-> f]

\* Python truthiness, as used by `x or ""`, `if task.history`, `not (a and b)`
Truthy(v) ==
  CASE v.t = "null" -> FALSE
    [] v.t = "str" -> v.s # ""
    [] v.t = "int" -> v.i # 0
    [] v.t = "bool" -> v.b
    [] v.t = "list" -> Len(v.q) > 0
    [] v.t = "obj" -> TRUE

\* str(v)
PyStr(v) ==
  CASE v.t = "str" -> v.s
    [] v.t = "int" -> ToString(v.i)
    [] v.t = "bool" -> IF v.b THEN "True" ELSE "False"
    [] v.t = "null" -> "None"
    [] OTHER -> "<repr>"

\* str(v or "")
StrOrEmpty(v) == IF Truthy(v) THEN PyStr(v) ELSE ""

\* the decimal strings int() accepts, within the values the model uses
NumericStrings == {"7", "0", "-3"}

ParseInt(s) ==
  CASE s = "7" -> 7
    [] s = "0" -> 0
    [] s = "-3" -> -3

\* int(v): raises TypeError on None/list/dict, ValueError on a non-numeric string
IntRaises(v) ==
  CASE v.t = "int" -> FALSE
    [] v.t = "bool" -> FALSE
    [] v.t = "str" -> v.s \notin NumericStrings
    [] OTHER -> TRUE

IntOf(v) ==
  CASE v.t = "int" -> v.i
    [] v.t = "bool" -> IF v.b THEN 1 ELSE 0
    [] v.t = "str" -> ParseInt(v.s)

\* str.strip() on the role strings the model uses
Strip(s) == IF s = " " THEN "" ELSE IF s = " user " THEN "user" ELSE s

(* ------------------------- message bodies ------------------------------ *)
\* A body is the byte string of a delivery.  kind "garbage": bytes that are
\* not JSON; kind "json": the JSON text of val.
Garbage == [kind |-> "garbage"]
JsonBody(v) == [kind |-> "json", val |-> v]

TaskKeys == {"request_id", "session_id", "user_id", "model", "last_user_message",
             "history", "use_rag", "x-retry-count"}

\* dict.get(k): None for an absent key
Get(obj, k) == IF k \in DOMAIN obj.f THEN obj.f[k] ELSE JNull

\* json.loads(body.decode("utf-8"))
DecodeRaises(body) == body.kind = "garbage"
Decode(body) == body.val

\* json.dumps(payload).encode("utf-8")
Encode(v) == JsonBody(v)

(* ------------------------- GenerateTask -------------------------------- *)
\* GenerateTask.from_json raises when data is not a dict (data.get) or when
\* int(data.get("user_id")) raises
FromJsonRaises(data) == data.t # "obj" \/ IntRaises(Get(data, "user_id"))

from_json(data) ==
  [request_id |-> StrOrEmpty(Get(data, "request_id")),
   session_id |-> StrOrEmpty(Get(data, "session_id")),
   user_id |-> IntOf(Get(data, "user_id")),
   model |-> StrOrEmpty(Get(data, "model")),
   last_user_message |-> StrOrEmpty(Get(data, "last_user_message")),
   history |-> IF Get(data, "history").t = "list" THEN Get(data, "history") ELSE JNull,
   use_rag |-> Get(data, "use_rag")]

\* the check with `task.model` left out
RequiredPresent_NoModel(task) ==
  /\ task.request_id # ""
  /\ task.session_id # ""
  /\ task.user_id # 0
  /\ task.last_user_message # ""

\* the check of _handle_message: every required field truthy
RequiredPresent(task) ==
  /\ task.request_id # ""
  /\ task.session_id # ""
  /\ task.user_id # 0
  /\ task.model # ""
  /\ task.last_user_message # ""

(* ------------------------- conversation -------------------------------- *)
ChatMsg(role, content) == [role |-> role, content |-> content]

\* one history entry: (it or {}).get(...) raises on a truthy non-dict and the
\* entry is skipped; an entry counts when role (stripped) and content are
\* non-empty
EntryRole(it) == IF it.t = "obj" THEN Strip(StrOrEmpty(Get(it, "role"))) ELSE ""
EntryContent(it) == IF it.t = "obj" THEN StrOrEmpty(Get(it, "content")) ELSE ""
\* an entry counts as soon as its role is non-empty
EntryOk_RoleOnly(it) ==
  /\ (Truthy(it) => it.t = "obj")
  /\ EntryRole(it) # ""

EntryOk(it) ==
  /\ (Truthy(it) => it.t = "obj")
  /\ EntryRole(it) # ""
  /\ EntryContent(it) # ""

RECURSIVE FilterHistory(_)
FilterHistory(q) ==
  IF q = <<>> THEN <<>>
  ELSE (IF EntryOk(Head(q))
          THEN <<ChatMsg(EntryRole(Head(q)), EntryContent(Head(q)))>>
          ELSE <<>>) \o FilterHistory(Tail(q))

BuildMessages(task) ==
  IF Truthy(task.history)
    THEN (IF FilterHistory(task.history.q) = <<>>
            THEN <<ChatMsg("user", task.last_user_message)>>
            ELSE FilterHistory(task.history.q))
    ELSE <<ChatMsg("user", task.last_user_message)>>

(* ----------------------- completion provider --------------------------- *)
\* LLM_SUPPORTED_MODELS default, the fallback list of LLMService.__init__
SupportedModels == {"gpt-4.1-nano"}

\* LLM_ALLOWED_MODEL_REGEX default "gpt", case-insensitive search
MatchesAllowed(id) == id \in {"gpt-4.1-nano", "gpt-4o"}

\* what models.list() of the provider can answer: an id set, or it raises
ModelListReplies ==
  {[raises |-> TRUE, ids |-> {}],
   [raises |-> FALSE, ids |-> {}],
   [raises |-> FALSE, ids |-> {"gpt-4o", "claude-3"}],
   [raises |-> FALSE, ids |-> {"gpt-4.1-nano", "claude-3"}]}

Fallback == {m \in SupportedModels : MatchesAllowed(m)}

\* get_available_models: without a client the fallback list; with a client
\* the filtered provider list, or the fallback when that is empty or the
\* call raised
get_available_models(hasClient, reply) ==
  IF ~hasClient THEN Fallback
  ELSE IF reply.raises THEN Fallback
  ELSE IF {m \in reply.ids : MatchesAllowed(m)} # {} THEN {m \in reply.ids : MatchesAllowed(m)}
  ELSE Fallback

is_model_supported(model, hasClient, reply) ==
  model \in get_available_models(hasClient, reply)

Usage(p, c, tot) == [prompt_tokens |-> p, completion_tokens |-> c, total_tokens |-> tot]
NoUsage == Usage(0, 0, 0)

\* replies of chat.completions.create in the first round
Reply1s ==
  {[kind |-> "direct", content |-> "answer", name |-> "", arguments |-> "", usage |-> Usage(10, 5, 15)],
   [kind |-> "function_call", content |-> "", name |-> "get_current_time", arguments |-> "{}",
    usage |-> Usage(10, 5, 15)]}

\* replies in the second round (content None is an empty string here); fc:
\* the reply asks for a function call again
Reply2s ==
  {[content |-> "final", fc |-> FALSE, usage |-> Usage(8, 4, 12)],
   [content |-> "", fc |-> FALSE, usage |-> Usage(8, 4, 12)],
   [content |-> "", fc |-> TRUE, usage |-> Usage(8, 4, 12)]}

\* how an awaited collaborator call can end besides returning
CallFailures == {"timeout", "error"}

\* outcomes of FunctionExecutor.execute as chat_with_functions sees them:
\* the result field is a JSON-serializable value or one json.dumps rejects
DispatchResults == {"serializable", "unserializable"}

(* ------------------------------ inputs --------------------------------- *)
Base ==
  [request_id |-> JStr("r1"), session_id |-> JStr("s1"), user_id |-> JInt(7),
   model |-> JStr("gpt-4.1-nano"), last_user_message |-> JStr("hi")]

Without(k) == JObj([x \in (DOMAIN Base) \ {k} |-> Base[x]])
With(k, v) == JObj((k :> v) @@ Base)

RequiredStrKeys == {"request_id", "session_id", "model", "last_user_message"}

BadUserIds == {JStr(""), JStr("abc"), JInt(0), JInt(-3)}

Histories ==
  {JList(<<JObj([role |-> JStr("user"), content |-> JStr("h1")]),
           JObj([role |-> JStr(" "), content |-> JStr("h2")]),
           JObj([role |-> JStr("assistant"), content |-> JStr("h3")])>>),
   JList(<<JNull, JStr("x"), JObj([role |-> JStr("user")])>>)}

TaskObjects ==
  {JObj(Base), With("model", JStr("claude-3")),
   With("use_rag", JBool(TRUE)), With("use_rag", JBool(FALSE))}
  \cup {Without(k) : k \in RequiredStrKeys \cup {"user_id"}}
  \cup {With(k, JStr("")) : k \in RequiredStrKeys}
  \cup {With("user_id", v) : v \in BadUserIds}
  \cup {With("history", h) : h \in Histories}

Bodies == {Garbage, JsonBody(JList(<<>>))} \cup {JsonBody(o) : o \in TaskObjects}

\* the x-retry-count header of a delivery: absent, or an integer around the
\* ceiling
Headers == {JNull} \cup {JInt(h) : h \in (RetryCeiling - 1)..MaxHeader}

\* what the upstream publishes: any body without the header, and the plain
\* task with each header
Published ==
  {[hdr |-> JNull, body |-> b] : b \in Bodies}
  \cup {[hdr |-> h, body |-> JsonBody(JObj(Base))] : h \in Headers}

(* ------------------------- FunctionExecutor ---------------------------- *)
\* A handler as execute sees it.  kind "def": a plain function; "async_def":
\* a native coroutine function (co_flags & 0x80); "callable": a callable
\* without that flag that returns an awaitable, such as functools.partial of
\* an async function.  tag tells one registration from another.
Handler(kind, tag, params) == [kind |-> kind, tag |-> tag, params |-> params]

FunctionDefinition(name, tag) == [name |-> name, description |-> tag]

\* the empty mapping
EmptyMap == [x \in {} |-> JNull]

\* dict assignment d[k] = v
Put(d, k, v) == [x \in (DOMAIN d) \cup {k} |-> IF x = k THEN v ELSE d[x]]

\* _defs[name] = definition on an insertion-ordered dict: an existing key
\* keeps its place, a new key goes last
\* the definition is appended whether or not the name is listed already
PutOrdered_Append(q, def) == Append(q, def)

\* self._defs[name] = definition on a dict that keeps insertion order: a new
\* name goes to the end, a known name keeps its place and gets the new value
PutOrdered(q, def) ==
  IF \E i \in 1..Len(q) : q[i].name = def.name
    THEN [i \in 1..Len(q) |-> IF q[i].name = def.name THEN def ELSE q[i]]
    ELSE Append(q, def)

\* the registry after the module's @register_function decorators ran
\* list_defs_as_openai: one descriptor per stored definition, in dict order
list_defs_as_openai(q) ==
  [i \in 1..Len(q) |-> [name |-> q[i].name, description |-> q[i].description]]

StartupNames ==
  <<"get_current_time", "calculate", "generate_random_password", "check_website_status", "web_search">>

StartupKind(name) == IF name \in {"check_website_status", "web_search"} THEN "async_def" ELSE "def"

StartupHandlers == [n \in {StartupNames[i] : i \in 1..Len(StartupNames)} |-> Handler(StartupKind(n), 1, {})]

StartupDefs == [i \in 1..Len(StartupNames) |-> FunctionDefinition(StartupNames[i], 1)]

(* ------------------------------ state ---------------------------------- *)
VARIABLES
  handlers,    \* FunctionExecutor._handlers
  defs,        \* FunctionExecutor._defs, in insertion order
  last,        \* the last direct call of a service and its outcome
  clock,       \* the reading of time.time()
  genQ,        \* messages waiting on the chat.generate queue
  retryQ,      \* messages on the retry topic, waiting for their TTL
  dlq,         \* messages on the dead-letter topic
  generated,   \* GeneratedEvents on the success topic
  produced,    \* number of tasks the upstream producer has published
  pc,          \* position of the consumer coroutine
  cur,         \* the delivery being handled (kept until the next one arrives)
  openai_client,   \* LLMService.openai_client is not None
  rag_default_on,  \* LLMService.rag_default_on
  ragHits,     \* number of results the vector store holds for any query
  collection,  \* the entries of the vector store's collection, by id
  connected,   \* RAGService._collection is set
  emb_client,  \* RAGService._emb_client is set
  ingests,     \* number of ingest_text calls made
  prefetched   \* deliveries the broker has handed to the consumer, not yet acknowledged

vars == <<genQ, retryQ, dlq, generated, produced, pc, cur, openai_client, rag_default_on, ragHits,
          handlers, defs, last, clock, collection, connected, emb_client, ingests, prefetched>>

\* the state of the RAGService and its store
Knowledge == <<collection, connected, emb_client, ingests>>

Min(a, b) == IF a < b THEN a ELSE b

NoCall == [op |-> "none"]

\* aio_pika.Message(body=json.dumps(payload)...) as _publish builds it: no
\* headers are set.  t and hop are ghost fields: the task the message descends
\* from and the number of retry republishes before it.
NewMessage(t, hop, payload) == [t |-> t, hop |-> hop, hdr |-> JNull, body |-> Encode(payload)]

NoDelivery ==
  [status |-> "none", t |-> 0, hop |-> 0, hdr |-> JNull, body |-> Garbage,
   failure |-> "none", retry |-> 0, orchCalled |-> FALSE, orchReturned |-> FALSE,
   req1 |-> <<>>, req1Sent |-> FALSE,
   nModels |-> 0, nCompletion |-> 0, nDispatch |-> 0, nEmbed |-> 0, nStore |-> 0,
   verdict |-> "none", reply1 |-> [kind |-> "none"], dispatch |-> "none", reply2 |-> [content |-> "", fc |-> FALSE, usage |-> NoUsage], trace |-> <<>>,
   resp |-> [response |-> "", model |-> "", usage |-> NoUsage],
   pubs |-> <<>>, pubsAtAck |-> 0]

Init ==
  /\ genQ = <<>>
  /\ retryQ = <<>>
  /\ dlq = <<>>
  /\ generated = <<>>
  /\ produced = 0
  /\ pc = "idle"
  /\ cur = NoDelivery
  /\ openai_client \in BOOLEAN
  /\ rag_default_on \in BOOLEAN
  /\ ragHits \in 0..1
  /\ handlers = StartupHandlers
  /\ defs = StartupDefs
  /\ last = NoCall
  /\ clock = 0
  /\ collection = EmptyMap
  /\ connected = TRUE
  /\ emb_client = TRUE
  /\ ingests = 0
  /\ prefetched = <<>>

\* what the consumer never writes: the service configuration, the function
\* registry and the record of direct calls
Config == <<openai_client, rag_default_on, ragHits, handlers, defs, last, clock, Knowledge, prefetched>>

(* ------------------------ upstream and broker -------------------------- *)
\* the upstream producer publishes a task to chat.generate
Produce ==
  /\ produced < MaxTasks
  /\ \E m \in Published :
       genQ' = Append(genQ, [t |-> produced + 1, hop |-> 0, hdr |-> m.hdr, body |-> m.body])
  /\ produced' = produced + 1
  /\ UNCHANGED <<retryQ, dlq, generated, pc, cur, Config>>

\* the broker moves a message whose TTL expired from the retry queue back to
\* chat.generate, headers and body as published
BrokerRedeliver ==
  /\ retryQ # <<>>
  /\ genQ' = Append(genQ, Head(retryQ))
  /\ retryQ' = Tail(retryQ)
  /\ UNCHANGED <<dlq, generated, produced, pc, cur, Config>>

(* ---------------------------- TaskConsumer ----------------------------- *)
\* _handle_message up to its first await: decode, from_json, required fields.
\* TRUE when one of them raises.
ValidationFails(body) ==
  \/ DecodeRaises(body)
  \/ FromJsonRaises(Decode(body))
  \/ ~RequiredPresent(from_json(Decode(body)))

TaskOf(body) == from_json(Decode(body))

\* the message dicts chat_with_functions builds from request.messages; the
\* worker's messages carry neither function_call nor name
RequestMessages(msgs) == [i \in 1..Len(msgs) |-> ChatMsg(msgs[i].role, msgs[i].content)]

\* the conversation chat_with_functions sends in REQUEST_1 for the request the
\* worker built: ChatRequestWithFunctions has no use_rag field and
\* chat_with_functions does not call _maybe_inject_rag_context
Request1Conversation(task, ragDefault, hits) == RequestMessages(BuildMessages(task))

\* largest number of results the vector store holds for a query
MaxHits == 2

\* the i-th result of the store in rank order; the contents are labelled
\* against the rank so that the order of the entries can be told
Hit(i) == [content |-> "chunk" \o ToString(MaxHits + 1 - i), chunk_index |-> MaxHits + 1 - i]

\* f"[{i+1}] ns=..., doc=..., idx=...\n{content}" for the result at position i
Snippet(i) ==
  "[" \o ToString(i) \o "] ns=default, doc=d, idx=" \o ToString(Hit(i).chunk_index) \o "\n"
  \o Hit(i).content

\* "\n\n".join(snippets) over the first n results
RECURSIVE JoinSnippets(_)
JoinSnippets(n) ==
  IF n = 0 THEN ""
  ELSE IF n = 1 THEN Snippet(1)
  ELSE JoinSnippets(n - 1) \o "\n\n" \o Snippet(n)

\* the instruction line the context message starts with
ContextHeader == "reference content:\n"

\* the context message keeps the last result only
ContextMessage_LastOnly(n) == ChatMsg("system", ContextHeader \o Snippet(n))

\* the system message _maybe_inject_rag_context builds from n results
ContextMessage(n) == ChatMsg("system", ContextHeader \o JoinSnippets(n))

\* _maybe_inject_rag_context, used by chat_completion only; hits is the
\* number of results rag.query returned, at most top_k, so res[:top_k] keeps
\* them all
maybe_inject_rag_context(msgs, use_rag, ragDefault, hits) ==
  IF ~(use_rag \/ ragDefault) \/ msgs = <<>> THEN msgs
  ELSE IF hits = 0 THEN msgs
  ELSE <<ContextMessage(hits)>> \o msgs

\* `resp2.choices[0].message.content or <default text>`
DefaultFinalText == "processing complete"

\* the usage of the last round alone
AddUsage_LastRound(a, b) == b

\* final_usage of chat_with_functions
AddUsage(a, b) ==
  Usage(a.prompt_tokens + b.prompt_tokens,
        a.completion_tokens + b.completion_tokens,
        a.total_tokens + b.total_tokens)

\* the payload with the function call added to it
GeneratedEvent_WithCall(task, resp) ==
  [request_id |-> task.request_id, session_id |-> task.session_id, user_id |-> task.user_id,
   model |-> resp.model, response |-> resp.response, usage |-> resp.usage,
   function_call |-> "get_current_time"]

\* gen_payload of _handle_message
GeneratedEvent(task, resp) ==
  [request_id |-> task.request_id, session_id |-> task.session_id, user_id |-> task.user_id,
   model |-> resp.model, response |-> resp.response, usage |-> resp.usage]

\* int(headers.get("x-retry-count", 0)) + 1
NextRetryCount(hdr) == (IF hdr.t = "null" THEN 0 ELSE IntOf(hdr)) + 1

\* payload["x-retry-count"] = retry
WithRetryCount(payload, retry) == JObj(("x-retry-count" :> JInt(retry)) @@ payload.f)

\* the ceiling test written `retry < 5`
RetryRoute_Strict(retry) == IF retry < RetryCeiling THEN ROUTING_RETRY ELSE ROUTING_DLQ

\* the routing decision of the timeout branch
RetryRoute(retry) == IF retry <= RetryCeiling THEN ROUTING_RETRY ELSE ROUTING_DLQ

Pub(topic, payload, ok) == [topic |-> topic, payload |-> payload, ok |-> ok]

\* the record of the delivery handled before is carried into the next one
Receive_KeepsState ==
  /\ pc = "idle"
  /\ genQ # <<>>
  /\ LET m == Head(genQ)
         d == [cur EXCEPT !.status = "handling", !.t = m.t, !.hop = m.hop,
                          !.hdr = m.hdr, !.body = m.body, !.failure = "none",
                          !.orchCalled = FALSE, !.orchReturned = FALSE]
     IN IF ValidationFails(m.body)
          THEN cur' = [d EXCEPT !.failure = "permanent"] /\ pc' = "on_error"
          ELSE cur' = [d EXCEPT !.orchCalled = TRUE] /\ pc' = "model_check"
  /\ genQ' = Tail(genQ)
  /\ UNCHANGED <<retryQ, dlq, generated, produced, Config>>

\* run_consumer pulls the next delivery and _handle_message runs up to its
\* first await
Receive ==
  /\ pc = "idle"
  /\ genQ # <<>>
  /\ LET m == Head(genQ)
         d == [NoDelivery EXCEPT !.status = "handling", !.t = m.t, !.hop = m.hop,
                                 !.hdr = m.hdr, !.body = m.body]
     IN IF ValidationFails(m.body)
          THEN cur' = [d EXCEPT !.failure = "permanent"] /\ pc' = "on_error"
          ELSE cur' = [d EXCEPT !.orchCalled = TRUE] /\ pc' = "model_check"
  /\ genQ' = Tail(genQ)
  /\ UNCHANGED <<retryQ, dlq, generated, produced, Config>>

\* the verdict of is_model_supported for the task's model
Verdict(model, hasClient, reply) ==
  IF is_model_supported(model, hasClient, reply) THEN "supported" ELSE "unsupported"

\* the verdict of the check is not acted on
ModelCheck_Ignored ==
  /\ pc = "model_check"
  /\ \E reply \in (IF openai_client THEN ModelListReplies ELSE {[raises |-> FALSE, ids |-> {}]}) :
       LET d == [cur EXCEPT !.nModels = IF openai_client THEN @ + 1 ELSE @,
                            !.verdict = Verdict(TaskOf(cur.body).model, openai_client, reply),
                            !.trace = Append(@, "check")]
       IN IF ~openai_client
            THEN cur' = [d EXCEPT !.failure = "permanent"] /\ pc' = "on_error"
            ELSE cur' = d /\ pc' = "request1"
  /\ UNCHANGED <<genQ, retryQ, dlq, generated, produced, Config>>

\* chat_with_functions: is_model_supported, then the client check
ModelCheck ==
  /\ pc = "model_check"
  /\ \E reply \in (IF openai_client THEN ModelListReplies ELSE {[raises |-> FALSE, ids |-> {}]}) :
       LET d == [cur EXCEPT !.nModels = IF openai_client THEN @ + 1 ELSE @,
                            !.verdict = Verdict(TaskOf(cur.body).model, openai_client, reply),
                            !.trace = Append(@, "check")]
       IN IF ~is_model_supported(TaskOf(cur.body).model, openai_client, reply) \/ ~openai_client
            THEN cur' = [d EXCEPT !.failure = "permanent"] /\ pc' = "on_error"
            ELSE cur' = d /\ pc' = "request1"
  /\ UNCHANGED <<genQ, retryQ, dlq, generated, produced, Config>>

\* REQUEST_1
Request1 ==
  /\ pc = "request1"
  /\ LET d == [cur EXCEPT !.nCompletion = @ + 1, !.req1Sent = TRUE, !.trace = Append(@, "req1"),
                          !.req1 = Request1Conversation(TaskOf(cur.body), rag_default_on, ragHits)]
     IN \/ \E r \in Reply1s :
             IF r.kind = "function_call"
               THEN cur' = [d EXCEPT !.reply1 = r] /\ pc' = "dispatch"
               ELSE /\ cur' = [d EXCEPT !.reply1 = r, !.orchReturned = TRUE,
                                        !.resp = [response |-> r.content, model |-> TaskOf(cur.body).model,
                                                  usage |-> r.usage]]
                    /\ pc' = "publish_generated"
        \/ cur' = [d EXCEPT !.failure = "transient"] /\ pc' = "on_timeout"
        \/ cur' = [d EXCEPT !.failure = "permanent"] /\ pc' = "on_error"
  /\ UNCHANGED <<genQ, retryQ, dlq, generated, produced, Config>>

\* function_executor.execute(call)
Dispatch ==
  /\ pc = "dispatch"
  /\ \E r \in DispatchResults :
       cur' = [cur EXCEPT !.nDispatch = @ + 1, !.dispatch = r, !.trace = Append(@, "dispatch")]
  /\ pc' = "request2"
  /\ UNCHANGED <<genQ, retryQ, dlq, generated, produced, Config>>

\* a function call in the second reply is dispatched and a further round
\* follows
Request2_Redispatch ==
  /\ pc = "request2"
  /\ IF cur.dispatch = "unserializable"
       THEN cur' = [cur EXCEPT !.failure = "permanent"] /\ pc' = "on_error"
       ELSE LET d == [cur EXCEPT !.nCompletion = @ + 1, !.trace = Append(@, "req2")]
            IN \/ \E r \in Reply2s :
                    IF r.fc
                      THEN cur' = [d EXCEPT !.reply2 = r] /\ pc' = "dispatch"
                      ELSE /\ cur' = [d EXCEPT !.orchReturned = TRUE, !.reply2 = r,
                                               !.resp = [response |-> IF r.content = "" THEN DefaultFinalText
                                                                      ELSE r.content,
                                                         model |-> TaskOf(cur.body).model,
                                                         usage |-> AddUsage(cur.reply1.usage, r.usage)]]
                           /\ pc' = "publish_generated"
               \/ cur' = [d EXCEPT !.failure = "transient"] /\ pc' = "on_timeout"
               \/ cur' = [d EXCEPT !.failure = "permanent"] /\ pc' = "on_error"
  /\ UNCHANGED <<genQ, retryQ, dlq, generated, produced, Config>>

\* follow_msgs (json.dumps of the result field) and REQUEST_2
Request2 ==
  /\ pc = "request2"
  /\ IF cur.dispatch = "unserializable"
       THEN cur' = [cur EXCEPT !.failure = "permanent"] /\ pc' = "on_error"
       ELSE LET d == [cur EXCEPT !.nCompletion = @ + 1, !.trace = Append(@, "req2")]
            IN \/ \E r \in Reply2s :
                    /\ cur' = [d EXCEPT !.orchReturned = TRUE, !.reply2 = r,
                                        !.resp = [response |-> IF r.content = "" THEN DefaultFinalText
                                                               ELSE r.content,
                                                  model |-> TaskOf(cur.body).model,
                                                  usage |-> AddUsage(cur.reply1.usage, r.usage)]]
                    /\ pc' = "publish_generated"
               \/ cur' = [d EXCEPT !.failure = "transient"] /\ pc' = "on_timeout"
               \/ cur' = [d EXCEPT !.failure = "permanent"] /\ pc' = "on_error"
  /\ UNCHANGED <<genQ, retryQ, dlq, generated, produced, Config>>

\* the event is published and the handler then raises, so the delivery
\* falls through to the dead-letter branch as well
PublishGenerated_ThenRaises ==
  /\ pc = "publish_generated"
  /\ LET ev == GeneratedEvent(TaskOf(cur.body), cur.resp)
     IN /\ cur' = [cur EXCEPT !.pubs = Append(@, Pub(ROUTING_GENERATED, ev, TRUE)),
                              !.failure = "permanent"]
        /\ generated' = Append(generated, [t |-> cur.t, event |-> ev])
        /\ pc' = "on_error"
  /\ UNCHANGED <<genQ, retryQ, dlq, produced, Config>>

\* _publish(channel, ROUTING_GENERATED, gen_payload), inside the try block
PublishGenerated ==
  /\ pc = "publish_generated"
  /\ LET ev == GeneratedEvent(TaskOf(cur.body), cur.resp)
     IN \/ /\ cur' = [cur EXCEPT !.pubs = Append(@, Pub(ROUTING_GENERATED, ev, TRUE))]
           /\ generated' = Append(generated, [t |-> cur.t, event |-> ev])
           /\ pc' = "ack"
        \/ /\ cur' = [cur EXCEPT !.pubs = Append(@, Pub(ROUTING_GENERATED, ev, FALSE)),
                                 !.failure = "transient"]
           /\ generated' = generated
           /\ pc' = "on_timeout"
        \/ /\ cur' = [cur EXCEPT !.pubs = Append(@, Pub(ROUTING_GENERATED, ev, FALSE)),
                                 !.failure = "permanent"]
           /\ generated' = generated
           /\ pc' = "on_error"
  /\ UNCHANGED <<genQ, retryQ, dlq, produced, Config>>

\* except asyncio.TimeoutError: count, route, publish; a failure of the
\* publish is logged and swallowed
OnTimeout ==
  /\ pc = "on_timeout"
  /\ LET retry == NextRetryCount(cur.hdr)
         payload == WithRetryCount(Decode(cur.body), retry)
         topic == RetryRoute(retry)
     IN \E ok \in BOOLEAN :
          /\ cur' = [cur EXCEPT !.retry = retry, !.pubs = Append(@, Pub(topic, payload, ok))]
          /\ retryQ' = IF ok /\ topic = ROUTING_RETRY
                         THEN Append(retryQ, NewMessage(cur.t, Min(cur.hop + 1, MaxHops), payload))
                         ELSE retryQ
          /\ dlq' = IF ok /\ topic = ROUTING_DLQ
                      THEN Append(dlq, NewMessage(cur.t, cur.hop, payload))
                      ELSE dlq
  /\ pc' = "ack"
  /\ UNCHANGED <<genQ, generated, produced, Config>>

\* except Exception: decode the body again and publish it to the DLQ; a
\* failure of the decode or of the publish is logged and swallowed
OnError ==
  /\ pc = "on_error"
  /\ IF DecodeRaises(cur.body)
       THEN UNCHANGED <<cur, dlq>>
       ELSE \E ok \in BOOLEAN :
              /\ cur' = [cur EXCEPT !.pubs = Append(@, Pub(ROUTING_DLQ, Decode(cur.body), ok))]
              /\ dlq' = IF ok THEN Append(dlq, NewMessage(cur.t, cur.hop, Decode(cur.body))) ELSE dlq
  /\ pc' = "ack"
  /\ UNCHANGED <<genQ, retryQ, generated, produced, Config>>

\* normal exit of `async with msg.process(ignore_processed=True)`
Ack ==
  /\ pc = "ack"
  /\ cur' = [cur EXCEPT !.status = "acked", !.pubsAtAck = Len(cur.pubs)]
  /\ pc' = "idle"
  /\ UNCHANGED <<genQ, retryQ, dlq, generated, produced, Config>>

\* positions at which the coroutine is suspended in an await
Awaiting ==
  \/ pc \in {"request1", "dispatch", "publish_generated", "on_timeout"}
  \/ pc = "model_check" /\ openai_client
  \/ pc = "request2" /\ cur.dispatch # "unserializable"
  \/ pc = "on_error" /\ ~DecodeRaises(cur.body)

\* _shutdown_cleanup: task.cancel().  CancelledError is raised at the await,
\* passes `except Exception`, and msg.process() rejects the delivery
\* (requeue=False) on the way out
Shutdown ==
  /\ \/ pc = "idle" /\ cur' = cur
     \/ Awaiting /\ cur' = [cur EXCEPT !.status = "rejected"]
  /\ pc' = "stopped"
  /\ UNCHANGED <<genQ, retryQ, dlq, generated, produced, Config>>

Next ==
  \/ Produce
  \/ BrokerRedeliver
  \/ Receive
  \/ ModelCheck
  \/ Request1
  \/ Dispatch
  \/ Request2
  \/ PublishGenerated
  \/ OnTimeout
  \/ OnError
  \/ Ack
  \/ Shutdown

Spec == Init /\ [][Next]_vars

\* the event loop keeps running the consumer and the broker keeps expiring
\* retry messages; the producer and the shutdown signal owe nothing
Fairness ==
  /\ WF_vars(BrokerRedeliver)
  /\ WF_vars(Receive)
  /\ WF_vars(ModelCheck)
  /\ WF_vars(Request1)
  /\ WF_vars(Dispatch)
  /\ WF_vars(Request2)
  /\ WF_vars(PublishGenerated)
  /\ WF_vars(OnTimeout)
  /\ WF_vars(OnError)
  /\ WF_vars(Ack)

FairSpec == Spec /\ Fairness

TypeOK ==
  /\ pc \in {"idle", "model_check", "request1", "dispatch", "request2", "publish_generated",
             "on_timeout", "on_error", "ack", "stopped"}
  /\ produced \in 0..MaxTasks
  /\ cur.status \in {"none", "handling", "acked", "rejected"}

(* ------------------------------ claims --------------------------------- *)
\* handling of the current delivery has come to its end
Done == pc = "ack" \/ cur.status = "acked"

PubsTo(topic) == SelectSeq(cur.pubs, LAMBDA p : p.topic = topic)
FailurePubs == SelectSeq(cur.pubs, LAMBDA p : p.topic # ROUTING_GENERATED)

HasKey(obj, k) == k \in DOMAIN obj.f

\* the retry count a message carries: its header, else the field of its body
CarriedCount(hdr, body) ==
  IF hdr.t # "null" THEN IntOf(hdr)
  ELSE IF HasKey(Decode(body), "x-retry-count") THEN Get(Decode(body), "x-retry-count").i
  ELSE 0

\* C1: along a chain of transient failures the sixth failure goes to the
\* dead-letter topic, and no task is published to the retry topic more than
\* five times
C1_SixthFailureDeadLetters ==
  /\ \A i \in 1..Len(retryQ) : retryQ[i].hop <= RetryCeiling
  /\ (Done /\ cur.failure = "transient" /\ cur.hop >= RetryCeiling /\ FailurePubs # <<>>)
       => FailurePubs[1].topic = ROUTING_DLQ

Settled(t) ==
  \/ \E i \in 1..Len(generated) : generated[i].t = t
  \/ \E i \in 1..Len(dlq) : dlq[i].t = t

\* C2: while the consumer runs, every task the producer published ends in a
\* GeneratedEvent or in a dead-lettered payload
C2_EveryTaskTerminates ==
  \A t \in 1..MaxTasks : (produced >= t) ~> (Settled(t) \/ pc = "stopped")

C4_CounterAdvances ==
  (Done /\ PubsTo(ROUTING_RETRY) # <<>>) =>
    Get(PubsTo(ROUTING_RETRY)[1].payload, "x-retry-count") = JInt(CarriedCount(cur.hdr, cur.body) + 1)

RequiredKeys == RequiredStrKeys \cup {"user_id"}

\* the body is a JSON object in which a required field is missing or empty
MissingRequired(body) ==
  /\ ~DecodeRaises(body)
  /\ Decode(body).t = "obj"
  /\ \E k \in RequiredKeys : Get(Decode(body), k) \in {JNull, JStr("")}

\* C5: a task with a required field missing or empty is sent to the
\* dead-letter topic exactly once, never to the retry topic, and no
\* collaborator is called for it
C5_MissingFieldDeadLetters ==
  (cur.status # "none" /\ MissingRequired(cur.body)) =>
    /\ ~cur.orchCalled
    /\ cur.nModels = 0 /\ cur.nCompletion = 0 /\ cur.nDispatch = 0
    /\ cur.nEmbed = 0 /\ cur.nStore = 0
    /\ PubsTo(ROUTING_RETRY) = <<>> /\ PubsTo(ROUTING_GENERATED) = <<>>
    /\ Done => (Len(PubsTo(ROUTING_DLQ)) = 1 /\ PubsTo(ROUTING_DLQ)[1].payload = Decode(cur.body))

C5_Witness ==
  /\ cur.status = "acked"
  /\ MissingRequired(cur.body)
  /\ Get(Decode(cur.body), "model") = JNull
  /\ Len(PubsTo(ROUTING_DLQ)) = 1

\* user_id is not a positive integer: absent, non-numeric, zero or negative
NonPositiveUser(body) ==
  /\ ~DecodeRaises(body)
  /\ Decode(body).t = "obj"
  /\ LET u == Get(Decode(body), "user_id")
     IN IntRaises(u) \/ IntOf(u) <= 0

\* C6: a task whose user_id is not a positive integer never reaches the
\* orchestrator, is never retried, and is dead-lettered
C6_NonPositiveUserRejected ==
  (cur.status # "none" /\ NonPositiveUser(cur.body)) =>
    /\ ~cur.orchCalled
    /\ PubsTo(ROUTING_RETRY) = <<>>
    /\ Done => Len(PubsTo(ROUTING_DLQ)) = 1

\* C7: a delivery that fails with anything but a timeout yields exactly one
\* dead-letter message carrying the original payload and no retry message
C7_PermanentDeadLetters ==
  (Done /\ cur.failure = "permanent") =>
    /\ Len(FailurePubs) = 1
    /\ FailurePubs[1].topic = ROUTING_DLQ
    /\ Encode(FailurePubs[1].payload) = cur.body

\* C8: a delivery is acknowledged in every case and never rejected
C8_AlwaysAcknowledged == cur.status # "rejected"

\* C9 as stated: whenever the orchestrator returned, exactly one
\* GeneratedEvent is published and no retry or dead-letter message
C9_SuccessPublishesOnlyEvent ==
  (Done /\ cur.orchReturned) =>
    /\ Len(PubsTo(ROUTING_GENERATED)) = 1
    /\ FailurePubs = <<>>

\* C9 amended: when the orchestrator returned and the GeneratedEvent publish
\* completed, that event is the delivery's only outbound message and the
\* acknowledgement comes after it; the publish is attempted exactly once in
\* every case
C9_SuccessPublishesOnlyEventIfPublished ==
  (Done /\ cur.orchReturned) =>
    /\ Len(PubsTo(ROUTING_GENERATED)) = 1
    /\ cur.pubs[1].topic = ROUTING_GENERATED
    /\ cur.pubs[1].ok =>
         /\ Len(cur.pubs) = 1
         /\ cur.status = "acked" => cur.pubsAtAck = 1
         /\ \E i \in 1..Len(generated) :
              generated[i] = [t |-> cur.t, event |-> cur.pubs[1].payload]

C9_Witness ==
  /\ cur.status = "acked"
  /\ cur.orchReturned
  /\ cur.nCompletion = 2
  /\ Len(cur.pubs) = 1
  /\ cur.pubs[1].ok

\* use_rag of the task, or the service-wide default
RagEffective == Truthy(TaskOf(cur.body).use_rag) \/ rag_default_on

\* C10: with RAG in effect and at least one retrieval result, REQUEST_1
\* starts with the context system message followed by the task's messages;
\* otherwise it is the task's messages alone
C10_Request1CarriesContext ==
  cur.req1Sent =>
    cur.req1 = maybe_inject_rag_context(RequestMessages(BuildMessages(TaskOf(cur.body))),
                                        Truthy(TaskOf(cur.body).use_rag), rag_default_on, ragHits)

\* the orchestrator's steps in order
OrchPath == <<"check", "req1", "dispatch", "req2">>

IsPrefix(a, b) == Len(a) <= Len(b) /\ \A i \in 1..Len(a) : a[i] = b[i]

\* C11: the orchestrator runs check, REQUEST_1 and then either returns or
\* runs one dispatch and REQUEST_2: one completion request without a function
\* call, two with one dispatch between them otherwise; a function call in the
\* second reply is not dispatched and there is no third request
C11_TwoRoundProtocol ==
  /\ IsPrefix(cur.trace, OrchPath)
  /\ cur.nCompletion <= 2 /\ cur.nDispatch <= 1
  /\ cur.nDispatch = 1 => (cur.reply1.kind = "function_call" /\ cur.nCompletion >= 1)
  /\ cur.orchReturned =>
       IF cur.reply1.kind = "function_call"
         THEN cur.trace = OrchPath /\ cur.nCompletion = 2 /\ cur.nDispatch = 1
         ELSE cur.trace = <<"check", "req1">> /\ cur.nCompletion = 1 /\ cur.nDispatch = 0

C11_Witness ==
  /\ cur.status = "acked"
  /\ cur.orchReturned
  /\ cur.reply2.fc
  /\ cur.trace = OrchPath
  /\ cur.nCompletion = 2 /\ cur.nDispatch = 1

(* --------------------- FunctionExecutor.execute ------------------------ *)
\* number of distinct registrations told apart
MaxTag == 2
\* largest reading of the clock
MaxClock == 1

\* message texts as code points
\* "函数未注册: " of execute
NotRegisteredText == <<20989, 25968, 26410, 27880, 20876, 58, 32>>
\* "参数解析失败: " of execute
ParseFailedText == <<21442, 25968, 35299, 26512, 22833, 36133, 58, 32>>
\* "function not registered: "
EnglishNotRegisteredText ==
  <<102, 117, 110, 99, 116, 105, 111, 110, 32, 110, 111, 116, 32, 114, 101, 103, 105, 115,
    116, 101, 114, 101, 100, 58, 32>>

\* an f-string of a fixed text followed by a value
Text(prefix, detail) == [kind |-> "text", prefix |-> prefix, detail |-> detail]
NoError == [kind |-> "none"]

\* values a handler call can produce: None, a JSON-serializable value, an
\* object json.dumps rejects, a coroutine that was not awaited
NoneValue == [kind |-> "none"]
JsonValue == [kind |-> "json"]
ObjectValue == [kind |-> "object"]
PendingValue == [kind |-> "pending"]

\* json.dumps(value) raises TypeError
DumpsRaises(v) == v.kind \in {"object", "pending"}

\* the arguments strings of a function call
ArgTexts == {"", "{}", "{\"tz\": 1}", "{\"zz\": 1}", "{bad", "[1]"}

\* json.loads(text)
JsonLoadsRaises(text) == text \in {"", "{bad"}

JsonLoads(text) ==
  CASE text = "{}" -> JObj(EmptyMap)
    [] text = "{\"tz\": 1}" -> JObj([tz |-> JInt(1)])
    [] text = "{\"zz\": 1}" -> JObj([zz |-> JInt(1)])
    [] text = "[1]" -> JList(<<JInt(1)>>)

\* an empty arguments string is parsed as well
ParseArgsRaises_NoDefault(text) == JsonLoadsRaises(text)

\* args = json.loads(call.arguments) if call.arguments else {}
ParseArgsRaises(text) == text # "" /\ JsonLoadsRaises(text)

ParseArgs(text) == IF text = "" THEN JObj(EmptyMap) ELSE JsonLoads(text)

\* handler(**args) raises TypeError before the body runs: args is not a
\* mapping, or it names a parameter the handler does not have
BindRaises(h, args) == args.t # "obj" \/ ~((DOMAIN args.f) \subseteq h.params)

\* no handler was called, no reply was asked for
NoBehaviour == [outcome |-> "none", value |-> NoneValue]
NoReply == [kind |-> "none"]

\* what the handler's body does once it runs
Behaviours ==
  {[outcome |-> "returns", value |-> JsonValue],
   [outcome |-> "returns", value |-> ObjectValue],
   [outcome |-> "raises", value |-> NoneValue]}

\* hasattr(handler, "__code__") and handler.__code__.co_flags & 0x80
IsCoroutineFunction(h) == h.kind = "async_def"

\* the body runs to its end within execute: at the call for a plain function,
\* at the await for a coroutine function; the coroutine a "callable" returns
\* is never awaited
BodyRuns(h) == h.kind = "def" \/ IsCoroutineFunction(h)

FunctionExecutionResult(name, result, success, error, execution_time) ==
  [function_name |-> name, result |-> result, success |-> success, error |-> error,
   execution_time |-> execution_time]

\* the error text with the name left out
NotRegisteredError_NoName(name) == Text(NotRegisteredText, "")

\* f"函数未注册: {call.name}"
NotRegisteredError(name) == Text(NotRegisteredText, name)

\* how a piece of execute ends: with a result, or with an exception on its
\* way out; parsed and invoked record whether json.loads and the handler
\* were called on the way, handler which one was called
NoHandler == [kind |-> "none"]
Returned(res, parsed, invoked, handler) ==
  [raised |-> FALSE, res |-> res, parsed |-> parsed, invoked |-> invoked, handler |-> handler]
Raised(message, parsed, invoked, handler) ==
  [raised |-> TRUE, message |-> message, parsed |-> parsed, invoked |-> invoked, handler |-> handler]

\* the inner part of execute, up to its outer except clause
ExecuteBody(hs, call, b, start, end) ==
  IF call.name \notin DOMAIN hs
    THEN Returned(FunctionExecutionResult(call.name, NoneValue, FALSE, NotRegisteredError(call.name),
                                          end - start),
                  FALSE, FALSE, NoHandler)
  ELSE IF ParseArgsRaises(call.arguments)
    THEN Returned(FunctionExecutionResult(call.name, NoneValue, FALSE,
                                          Text(ParseFailedText, "json error"), end - start),
                  TRUE, FALSE, NoHandler)
  ELSE IF BindRaises(hs[call.name], ParseArgs(call.arguments))
    THEN Raised("type error", call.arguments # "", TRUE, hs[call.name])
  ELSE IF BodyRuns(hs[call.name]) /\ b.outcome = "raises"
    THEN Raised("handler error", call.arguments # "", TRUE, hs[call.name])
  ELSE Returned(FunctionExecutionResult(call.name,
                                        IF BodyRuns(hs[call.name]) THEN b.value ELSE PendingValue,
                                        TRUE, NoError, end - start),
                call.arguments # "", TRUE, hs[call.name])

\* execute without its outer `except Exception`
execute_NoCatch(hs, call, b, start, end) == ExecuteBody(hs, call, b, start, end)

\* FunctionExecutor.execute: the outer `except Exception` turns what the
\* inner part lets out into a failure result carrying str(e)
execute(hs, call, b, start, end) ==
  LET o == ExecuteBody(hs, call, b, start, end)
  IN IF o.raised
       THEN Returned(FunctionExecutionResult(call.name, NoneValue, FALSE, Text(<<>>, o.message),
                                             end - start),
                     o.parsed, o.invoked, o.handler)
       ELSE o

\* the handler's call ran to a normal return: the arguments bound and the
\* body, where execute runs it, returned
ReturnsNormally(h, args, b) ==
  /\ ~BindRaises(h, args)
  /\ BodyRuns(h) => b.outcome = "returns"

(* ------------------------ calls of the executor ----------------------- *)
RegNames == {"get_current_time", "web_search"}
CallNames == RegNames \cup {"nope"}
HandlerKinds == {"def", "async_def", "callable"}

\* FunctionExecutor.register
Register ==
  /\ \E name \in RegNames, kind \in HandlerKinds, tag \in 1..MaxTag :
       /\ handlers' = Put(handlers, name, Handler(kind, tag, {"tz"}))
       /\ defs' = PutOrdered(defs, FunctionDefinition(name, tag))
       /\ last' = [op |-> "register", name |-> name, handler |-> Handler(kind, tag, {"tz"}),
                   definition |-> FunctionDefinition(name, tag)]
  /\ UNCHANGED <<genQ, retryQ, dlq, generated, produced, pc, cur, openai_client, rag_default_on,
                 ragHits, clock, Knowledge, prefetched>>

\* one call of FunctionExecutor.execute; the clock is read at entry and at
\* exit and does not run backwards in between
Execute ==
  /\ \E name \in CallNames, text \in ArgTexts, b \in Behaviours, dt \in 0..1 :
       /\ clock + dt <= MaxClock
       /\ last' = [op |-> "execute", call |-> [name |-> name, arguments |-> text], beh |-> b,
                   out |-> execute(handlers, [name |-> name, arguments |-> text], b, clock, clock + dt)]
       /\ clock' = clock + dt
  /\ UNCHANGED <<genQ, retryQ, dlq, generated, produced, pc, cur, openai_client, rag_default_on,
                 ragHits, handlers, defs, Knowledge, prefetched>>

ExecutorInit ==
  /\ genQ = <<>>
  /\ retryQ = <<>>
  /\ dlq = <<>>
  /\ generated = <<>>
  /\ produced = 0
  /\ pc = "idle"
  /\ cur = NoDelivery
  /\ openai_client = TRUE
  /\ rag_default_on = TRUE
  /\ ragHits = 1
  /\ handlers = EmptyMap
  /\ defs = <<>>
  /\ last = NoCall
  /\ clock = 0
  /\ collection = EmptyMap
  /\ connected = TRUE
  /\ emb_client = TRUE
  /\ ingests = 0
  /\ prefetched = <<>>

ExecutorNext ==
  \/ Register
  \/ Execute

ExecutorSpec == ExecutorInit /\ [][ExecutorNext]_vars

(* ----------------------- calls of the LLMService ----------------------- *)
ServiceModels == {"gpt-4.1-nano", "claude-3"}
CallerMessages ==
  {<<>>, <<ChatMsg("user", "hi")>>, <<ChatMsg("system", "be brief"), ChatMsg("user", "hi")>>}

\* rag_top_k of the request: None (0 here), or a number
TopKs == {0, 1}

\* top_k = request.rag_top_k or 5
DefaultTopK == 5
TopK(rag_top_k) == IF rag_top_k = 0 THEN DefaultTopK ELSE rag_top_k

\* the number of results a query for n_results = top_k returns from a store
\* holding `stored` matches
QueryHits(stored, top_k) == Min(stored, top_k)

\* replies of chat.completions.create to chat_completion
CompletionReplies == {[content |-> "final", fc |-> FALSE, usage |-> Usage(8, 4, 12)]} \cup {[kind |-> k] : k \in CallFailures}

\* how rag.query ends: the store is not connected, the embeddings client is
\* missing, embeddings.create fails, the store query fails, or it returns
RagOutcomes == {"no_store", "no_embed_client", "embed_fails", "store_fails", "ok"}

\* how chat.completions.create ends when it does not return
Failed(kind) == [kind |-> kind]
FailedReplies == {Failed(k) : k \in CallFailures}

\* bool(use_rag or rag_default_on), and the conversation is not empty
Effective(use_rag, ragDefault, msgs) == (use_rag \/ ragDefault) /\ msgs # <<>>

\* what a call of the service did and how it ended
Outcome(error, nModels, nCompletion, nDispatch, nEmbed, nStore, resp) ==
  [raised |-> error # "none", error |-> error, nModels |-> nModels, nCompletion |-> nCompletion,
   nDispatch |-> nDispatch, nEmbed |-> nEmbed, nStore |-> nStore, resp |-> resp]

NoResp == [response |-> "", model |-> "", usage |-> NoUsage]

\* requests rag.query sends before it ends with outcome o
EmbedCalls(o) == IF o \in {"embed_fails", "store_fails", "ok"} THEN 1 ELSE 0
StoreCalls(o) == IF o \in {"store_fails", "ok"} THEN 1 ELSE 0

\* chat_completion with the credentials check after the context injection
chat_completion_LateClientCheck(model, msgs, use_rag, hasClient, ragDefault, hits, mreply, rag, reply) ==
  LET nM == IF hasClient THEN 1 ELSE 0
      eff == Effective(use_rag, ragDefault, msgs)
      nE == IF eff THEN EmbedCalls(rag) ELSE 0
      nS == IF eff THEN StoreCalls(rag) ELSE 0
  IN IF ~is_model_supported(model, hasClient, mreply)
       THEN Outcome("unsupported_model", nM, 0, 0, 0, 0, NoResp)
     ELSE IF ~hasClient
       THEN Outcome("no_credentials", nM, 0, 0, nE, nS, NoResp)
     ELSE IF reply \in FailedReplies
       THEN Outcome(reply.kind, nM, 1, 0, nE, nS, NoResp)
     ELSE Outcome("none", nM, 1, 0, nE, nS,
                  [response |-> reply.content, model |-> model, usage |-> reply.usage])

\* LLMService.chat_completion: model check, credentials check, context
\* injection (a failure of it is logged and skipped), one completion request
chat_completion(model, msgs, use_rag, hasClient, ragDefault, hits, mreply, rag, reply) ==
  LET nM == IF hasClient THEN 1 ELSE 0
      eff == Effective(use_rag, ragDefault, msgs)
      nE == IF eff THEN EmbedCalls(rag) ELSE 0
      nS == IF eff THEN StoreCalls(rag) ELSE 0
  IN IF ~is_model_supported(model, hasClient, mreply)
       THEN Outcome("unsupported_model", nM, 0, 0, 0, 0, NoResp)
     ELSE IF ~hasClient
       THEN Outcome("no_credentials", nM, 0, 0, 0, 0, NoResp)
     ELSE IF reply \in FailedReplies
       THEN Outcome(reply.kind, nM, 1, 0, nE, nS, NoResp)
     ELSE Outcome("none", nM, 1, 0, nE, nS,
                  [response |-> reply.content, model |-> model, usage |-> reply.usage])

\* the conversation chat_completion sends
CompletionConversation(msgs, use_rag, ragDefault, hits, rag) ==
  IF rag = "ok" THEN maybe_inject_rag_context(msgs, use_rag, ragDefault, hits) ELSE msgs

\* LLMService.chat_with_functions as one call
chat_with_functions(model, hasClient, hs, mreply, r1, b, r2) ==
  LET nM == IF hasClient THEN 1 ELSE 0
  IN IF ~is_model_supported(model, hasClient, mreply)
       THEN Outcome("unsupported_model", nM, 0, 0, 0, 0, NoResp)
     ELSE IF ~hasClient
       THEN Outcome("no_credentials", nM, 0, 0, 0, 0, NoResp)
     ELSE IF r1 \in FailedReplies
       THEN Outcome(r1.kind, nM, 1, 0, 0, 0, NoResp)
     ELSE IF r1.kind = "direct"
       THEN Outcome("none", nM, 1, 0, 0, 0,
                    [response |-> r1.content, model |-> model, usage |-> r1.usage])
     ELSE IF DumpsRaises(execute(hs, [name |-> r1.name, arguments |-> r1.arguments], b, 0, 0).res.result)
       THEN Outcome("type_error", nM, 1, 1, 0, 0, NoResp)
     ELSE IF r2 \in FailedReplies
       THEN Outcome(r2.kind, nM, 2, 1, 0, 0, NoResp)
     ELSE Outcome("none", nM, 2, 1, 0, 0,
                  [response |-> IF r2.content = "" THEN DefaultFinalText ELSE r2.content,
                   model |-> model, usage |-> AddUsage(r1.usage, r2.usage)])

\* ChatMessageWithFunction: content None is the empty string, function_call
\* and name are optional
NoneCall == [kind |-> "none"]
FunctionCall(name, arguments) == [name |-> name, arguments |-> arguments]
FunctionMsg(role, content, function_call, name) ==
  [role |-> role, content |-> content, function_call |-> function_call, name |-> name]

\* conversations a caller of chat_with_functions sends: a first turn, a first
\* turn with a system prompt, and a later turn whose history holds the
\* assistant's call and the function's answer of an earlier turn
FunctionCallerMessages ==
  {<<FunctionMsg("user", "hi", NoneCall, "")>>,
   <<FunctionMsg("system", "be brief", NoneCall, ""), FunctionMsg("user", "hi", NoneCall, "")>>,
   <<FunctionMsg("user", "time?", NoneCall, ""),
     FunctionMsg("assistant", "", FunctionCall("get_current_time", "{}"), ""),
     FunctionMsg("function", "\"12:00\"", NoneCall, "get_current_time"),
     FunctionMsg("user", "and now?", NoneCall, "")>>}

\* the dict built for one message of REQUEST_1
Request1Dict(m) ==
  [role |-> m.role, content |-> m.content]
    @@ (IF m.function_call # NoneCall
          THEN [function_call |-> [name |-> m.function_call.name,
                                   arguments |-> m.function_call.arguments]]
          ELSE EmptyMap)
    @@ (IF m.name # "" THEN [name |-> m.name] ELSE EmptyMap)

Request1Messages(msgs) == [i \in 1..Len(msgs) |-> Request1Dict(msgs[i])]

\* request.functions: None, or a list of definitions
NoList == [given |-> FALSE, list |-> <<>>]
GivenList(q) == [given |-> TRUE, list |-> q]
CallerFunctions == <<[name |-> "lookup", description |-> 1]>>

\* request.function_call: None is the empty string; the field's default is
\* "auto"
Policies == {"auto", "", "none"}

\* requests of chat_with_functions: every conversation with the defaults (as
\* the TaskConsumer sends them), and the first-turn conversation with a list
\* or a policy of the caller's
FunctionRequest(functions, function_call) ==
  [messages |-> <<FunctionMsg("user", "hi", NoneCall, "")>>, functions |-> functions,
   function_call |-> function_call]

FunctionRequests ==
  {[messages |-> m, functions |-> NoList, function_call |-> "auto"] : m \in FunctionCallerMessages}
  \cup {FunctionRequest(NoList, ""), FunctionRequest(NoList, "none"),
        FunctionRequest(GivenList(<<>>), "none"), FunctionRequest(GivenList(CallerFunctions), "auto"),
        FunctionRequest(GivenList(CallerFunctions), "")}

\* funcs = request.functions or self.get_available_functions()
OfferedFunctions(functions, q) ==
  IF functions.given /\ functions.list # <<>> THEN functions.list ELSE list_defs_as_openai(q)

\* REQUEST_1 names a policy also when there is nothing to offer
Request1Params_AlwaysPolicy(model, msgs, functions, function_call, q) ==
  [model |-> model, messages |-> Request1Messages(msgs),
   function_call |-> IF function_call # "" THEN function_call ELSE "auto"]
    @@ (IF OfferedFunctions(functions, q) # <<>>
          THEN [functions |-> OfferedFunctions(functions, q)]
          ELSE EmptyMap)

\* the keyword arguments of REQUEST_1; functions and function_call are set
\* when the list to offer is not empty
Request1Params(model, msgs, functions, function_call, q) ==
  [model |-> model, messages |-> Request1Messages(msgs)]
    @@ (IF OfferedFunctions(functions, q) # <<>>
          THEN [functions |-> OfferedFunctions(functions, q),
                function_call |-> IF function_call # "" THEN function_call ELSE "auto"]
          ELSE EmptyMap)

\* json.dumps(value, ensure_ascii=False) of a value it accepts
json_dumps(v) == IF v = NoneValue THEN "null" ELSE "{\"value\": 1}"

\* follow_msgs: role and content of the request's messages, then the
\* assistant's call and the function's answer
follow_msgs(msgs, call, result) ==
  [i \in 1..Len(msgs) |-> [role |-> msgs[i].role, content |-> msgs[i].content]]
    \o <<[role |-> "assistant", content |-> "",
          function_call |-> [name |-> call.name, arguments |-> call.arguments]],
         [role |-> "function", name |-> call.name, content |-> json_dumps(result)]>>

\* the keyword arguments of REQUEST_2
Request2Params(model, msgs, call, result) ==
  [model |-> model, messages |-> follow_msgs(msgs, call, result)]

NoParams == [kind |-> "none"]

ModelReplies == IF openai_client THEN ModelListReplies ELSE {[raises |-> FALSE, ids |-> {}]}

\* one call of chat_completion; a collaborator's reply is drawn when the
\* model check lets the call get as far as asking for it
ChatCompletion ==
  /\ \E model \in ServiceModels, msgs \in CallerMessages, use_rag \in BOOLEAN,
        top_k \in TopKs, mreply \in ModelReplies :
     \E rag \in (IF is_model_supported(model, openai_client, mreply)
                      /\ Effective(use_rag, rag_default_on, msgs)
                  THEN RagOutcomes ELSE {"not_called"}),
        reply \in (IF openai_client /\ is_model_supported(model, openai_client, mreply)
                    THEN CompletionReplies ELSE {NoReply}) :
       last' = [op |-> "chat_completion", model |-> model, messages |-> msgs, use_rag |-> use_rag,
                rag_top_k |-> top_k, rag |-> rag,
                sent |-> CompletionConversation(msgs, use_rag, rag_default_on,
                                                QueryHits(ragHits, TopK(top_k)), rag),
                out |-> chat_completion(model, msgs, use_rag, openai_client, rag_default_on, ragHits,
                                        mreply, rag, reply)]
  /\ UNCHANGED <<genQ, retryQ, dlq, generated, produced, pc, cur, openai_client, rag_default_on,
                 ragHits, handlers, defs, clock, Knowledge, prefetched>>

\* one call of chat_with_functions
ChatWithFunctions ==
  /\ \E model \in ServiceModels, req \in FunctionRequests, mreply \in ModelReplies :
       \E r1 \in (IF openai_client /\ is_model_supported(model, openai_client, mreply)
                   THEN Reply1s \cup FailedReplies ELSE {NoReply}) :
       \E b \in (IF r1.kind = "function_call" THEN Behaviours ELSE {NoBehaviour}),
          r2 \in (IF r1.kind = "function_call" THEN Reply2s \cup FailedReplies ELSE {NoReply}) :
         LET out == chat_with_functions(model, openai_client, handlers, mreply, r1, b, r2)
             call == FunctionCall(r1.name, r1.arguments)
             msgs == req.messages
         IN last' = [op |-> "chat_with_functions", model |-> model, messages |-> msgs,
                     functions |-> req.functions, function_call |-> req.function_call,
                     reply1 |-> r1, beh |-> b, out |-> out,
                     params1 |-> IF out.nCompletion >= 1
                                   THEN Request1Params(model, msgs, req.functions,
                                                       req.function_call, defs)
                                   ELSE NoParams,
                     result |-> IF out.nDispatch = 1
                                  THEN execute(handlers, call, b, 0, 0).res.result ELSE NoneValue,
                     params2 |-> IF out.nCompletion = 2
                                   THEN Request2Params(model, msgs, call,
                                                       execute(handlers, call, b, 0, 0).res.result)
                                   ELSE NoParams]
  /\ UNCHANGED <<genQ, retryQ, dlq, generated, produced, pc, cur, openai_client, rag_default_on,
                 ragHits, handlers, defs, clock, Knowledge, prefetched>>

ServiceInit ==
  /\ genQ = <<>>
  /\ retryQ = <<>>
  /\ dlq = <<>>
  /\ generated = <<>>
  /\ produced = 0
  /\ pc = "idle"
  /\ cur = NoDelivery
  /\ openai_client \in BOOLEAN
  /\ rag_default_on \in BOOLEAN
  /\ ragHits \in 0..MaxHits
  /\ handlers = StartupHandlers
  /\ defs = StartupDefs
  /\ last = NoCall
  /\ clock = 0
  /\ collection = EmptyMap
  /\ connected = TRUE
  /\ emb_client = TRUE
  /\ ingests = 0
  /\ prefetched = <<>>

ServiceNext ==
  \/ ChatCompletion
  \/ ChatWithFunctions

ServiceSpec == ServiceInit /\ [][ServiceNext]_vars

(* ------------------------------ RAGService ----------------------------- *)
\* Texts are sequences of code points.
\* longest text split exhaustively, largest chunk_size and overlap tried
MaxLen == 6
MaxChunk == 3

\* RAG_CHUNK_SIZE and RAG_CHUNK_OVERLAP defaults
DefaultChunkSize == 1000
DefaultChunkOverlap == 200

Max(a, b) == IF a > b THEN a ELSE b

\* a text of n characters, all different
TextOfLen(n) == [i \in 1..n |-> 96 + i]

\* text[a : b] of Python, 0 <= a <= b
Slice(text, a, b) == SubSeq(text, a + 1, Min(b, Len(text)))

\* step = max(1, chunk_size - overlap)
Stride(chunk_size, overlap) == Max(1, chunk_size - overlap)

\* for i in range(from, len(text), step): chunks.append(text[i : i + chunk_size])
RECURSIVE SplitFrom(_, _, _, _)
SplitFrom(text, i, step, chunk_size) ==
  IF i >= Len(text) THEN <<>>
  ELSE <<Slice(text, i, i + chunk_size)>> \o SplitFrom(text, i + step, step, chunk_size)

\* the windows start one character late
split_text_FromOne(text, chunk_size, overlap) ==
  IF text = <<>> THEN <<>> ELSE SplitFrom(text, 1, Stride(chunk_size, overlap), chunk_size)

\* RAGService._split_text
split_text(text, chunk_size, overlap) ==
  IF text = <<>> THEN <<>> ELSE SplitFrom(text, 0, Stride(chunk_size, overlap), chunk_size)

\* the lengths of long texts split with the default sizes
LongLens == {799, 800, 801, 1000, 1601}

\* what split is tried on: every short text with every small size, and long
\* texts with the default sizes
SplitInputs ==
  {[text |-> TextOfLen(n), chunk_size |-> c, overlap |-> o] :
     n \in 0..MaxLen, c \in 1..MaxChunk, o \in 0..MaxChunk}
  \cup {[text |-> TextOfLen(n), chunk_size |-> DefaultChunkSize, overlap |-> DefaultChunkOverlap] :
          n \in LongLens}

\* one call of _split_text
Split ==
  /\ \E in \in SplitInputs :
       last' = [op |-> "split", text |-> in.text, chunk_size |-> in.chunk_size, overlap |-> in.overlap,
                chunks |-> split_text(in.text, in.chunk_size, in.overlap)]
  /\ UNCHANGED <<genQ, retryQ, dlq, generated, produced, pc, cur, openai_client, rag_default_on,
                 ragHits, handlers, defs, clock, Knowledge, prefetched>>

\* number of ingest_text calls in one run
MaxIngests == 2

\* str values as code-point sequences; None and "" are both <<>>
DefaultNamespace == <<100, 101, 102, 97, 117, 108, 116>>
Dash == <<45>>
Digit(i) == <<48 + i>>

\* hashlib.sha256(base).hexdigest()[:32], taken as injective: the digest is
\* written as the hashed text in brackets
hash_id(base) == <<40>> \o base \o <<41>>

NsOrDefault(namespace) == IF namespace = <<>> THEN DefaultNamespace ELSE namespace

\* str(user_id or "")
UserStr(user_id) == IF Truthy(user_id) THEN Digit(user_id.i) ELSE <<>>

\* base_id = doc_id or _hash_id((namespace or "default") + (str(user_id or "") + text[:64]))
base_id(req) ==
  IF req.doc_id # <<>> THEN req.doc_id
  ELSE hash_id(NsOrDefault(req.namespace) \o UserStr(req.user_id) \o Slice(req.text, 0, 64))

\* ids = [_hash_id(f"{base_id}-{i}") for i in range(len(chunks))]
chunk_id(req, i) == hash_id(base_id(req) \o Dash \o Digit(i))

\* the metadata of chunk idx: the generated keys, user_id when it is not
\* None, then md.update(extra_metadata)
\* the generated keys are written over the caller's
chunk_metadata_GeneratedWins(req, idx) ==
  [namespace |-> NsOrDefault(req.namespace), chunk_index |-> idx, doc_id |-> base_id(req)]
  @@ (IF req.user_id = JNull THEN EmptyMap ELSE [user_id |-> req.user_id.i])
  @@ req.extra_metadata

chunk_metadata(req, idx) ==
  req.extra_metadata
  @@ (IF req.user_id = JNull THEN EmptyMap ELSE [user_id |-> req.user_id.i])
  @@ [namespace |-> NsOrDefault(req.namespace), chunk_index |-> idx, doc_id |-> base_id(req)]

\* how the collaborators of one ingest answer
IngestReplies == {"ok", "embed_fails", "upsert_fails"}

IngestOutcome(error, result, nEmbed, nUpsert, ids, store, calls) ==
  [raised |-> error # "none", error |-> error, result |-> result, nEmbed |-> nEmbed,
   nUpsert |-> nUpsert, ids |-> ids, store |-> store, calls |-> calls]

\* the requests ingest_text sends: embeddings.create(input=chunks) and
\* collection.upsert(ids, documents, metadatas, embeddings)
EmbedCall(texts) == [call |-> "embed", input |-> texts]
UpsertCall(ids, documents, metadatas, embeddings) ==
  [call |-> "upsert", ids |-> ids, documents |-> documents, metadatas |-> metadatas,
   embeddings |-> embeddings]

\* [item.embedding for item in resp.data]: one embedding per input text
Embeddings(texts) == [i \in 1..Len(texts) |-> <<"embedding", texts[i]>>]

NoResult == [doc_id |-> <<>>, chunk_count |-> -1]

\* an id that is stored already is not replaced: the new entry is added
\* next to it
Upsert_AddCopy(store, ids, documents, metadatas, embeddings) ==
  LET key(i) == IF ids[i] \in DOMAIN store THEN ids[i] \o <<39>> ELSE ids[i]
  IN [id \in (DOMAIN store) \cup {key(i) : i \in 1..Len(ids)} |->
        IF \E i \in 1..Len(ids) : key(i) = id
          THEN LET i == CHOOSE i \in 1..Len(ids) : key(i) = id
               IN [document |-> documents[i], metadata |-> metadatas[i], embedding |-> embeddings[i]]
          ELSE store[id]]

\* collection.upsert: the entry of every id is replaced, the others stay
Upsert(store, ids, documents, metadatas, embeddings) ==
  [id \in (DOMAIN store) \cup {ids[i] : i \in 1..Len(ids)} |->
     IF \E i \in 1..Len(ids) : ids[i] = id
       THEN LET i == CHOOSE i \in 1..Len(ids) : ids[i] = id /\ \A j \in (i + 1)..Len(ids) : ids[j] # id
            IN [document |-> documents[i], metadata |-> metadatas[i], embedding |-> embeddings[i]]
       ELSE store[id]]

\* RAGService.ingest_text
ingest_text(req, store, isConnected, hasEmb, reply) ==
  LET chunks == split_text(req.text, DefaultChunkSize, DefaultChunkOverlap)
      n == Len(chunks)
      ids == [i \in 1..n |-> chunk_id(req, i - 1)]
      metadatas == [i \in 1..n |-> chunk_metadata(req, i - 1)]
      both == <<EmbedCall(chunks), UpsertCall(ids, chunks, metadatas, Embeddings(chunks))>>
  IN IF ~isConnected THEN IngestOutcome("not_connected", NoResult, 0, 0, <<>>, store, <<>>)
     ELSE IF chunks = <<>>
       THEN IngestOutcome("none", [doc_id |-> req.doc_id, chunk_count |-> 0], 0, 0, <<>>, store, <<>>)
     ELSE IF ~hasEmb THEN IngestOutcome("no_embed_client", NoResult, 0, 0, <<>>, store, <<>>)
     ELSE IF reply = "embed_fails"
       THEN IngestOutcome("embed_error", NoResult, 1, 0, <<>>, store, <<EmbedCall(chunks)>>)
     ELSE IF reply = "upsert_fails" THEN IngestOutcome("store_error", NoResult, 1, 1, ids, store, both)
     ELSE IngestOutcome("none", [doc_id |-> base_id(req), chunk_count |-> n], 1, 1, ids,
                        Upsert(store, ids, chunks, metadatas, Embeddings(chunks)), both)

\* texts: empty, one chunk, another one-chunk text with the same first 64
\* characters, and two chunks
ShortText == TextOfLen(70)
OtherShortText == [i \in 1..70 |-> IF i <= 64 THEN 96 + i ELSE 32]
LongText == TextOfLen(801)
IngestTexts == {<<>>, ShortText, OtherShortText, LongText}

IngestRequest(text, doc_id, namespace, user_id, extra) ==
  [text |-> text, doc_id |-> doc_id, namespace |-> namespace, user_id |-> user_id,
   extra_metadata |-> extra]

IngestRequests ==
  {IngestRequest(t, d, <<>>, JNull, EmptyMap) : t \in IngestTexts, d \in {<<>>, <<100>>}}
  \cup {IngestRequest(t, <<100>>, <<98>>, JNull, EmptyMap) : t \in {ShortText, LongText}}
  \cup {IngestRequest(ShortText, <<>>, <<98>>, JInt(1), EmptyMap),
        IngestRequest(ShortText, <<100>>, <<>>, JNull, [chunk_index |-> 9])}

\* one call of ingest_text; before is the collection as the call found it,
\* prev the call made before this one
Ingest ==
  /\ ingests < MaxIngests
  /\ \E req \in IngestRequests, reply \in IngestReplies :
       LET out == ingest_text(req, collection, connected, emb_client, reply)
       IN /\ last' = [op |-> "ingest", req |-> req, out |-> out, before |-> collection,
                      prev |-> IF last.op = "ingest" THEN [op |-> "ingest", req |-> last.req, out |-> last.out]
                               ELSE NoCall]
          /\ collection' = out.store
  /\ ingests' = ingests + 1
  /\ UNCHANGED <<genQ, retryQ, dlq, generated, produced, pc, cur, openai_client, rag_default_on,
                 ragHits, handlers, defs, clock, connected, emb_client, prefetched>>

RagInit ==
  /\ genQ = <<>>
  /\ retryQ = <<>>
  /\ dlq = <<>>
  /\ generated = <<>>
  /\ produced = 0
  /\ pc = "idle"
  /\ cur = NoDelivery
  /\ openai_client = TRUE
  /\ rag_default_on = TRUE
  /\ ragHits = 1
  /\ handlers = StartupHandlers
  /\ defs = StartupDefs
  /\ last = NoCall
  /\ clock = 0
  /\ collection = EmptyMap
  /\ connected \in BOOLEAN
  /\ emb_client \in BOOLEAN
  /\ ingests = 0
  /\ prefetched = <<>>

RagNext ==
  \/ Ingest

RagSpec == RagInit /\ [][RagNext]_vars

\* _split_text on its own
SplitNext ==
  \/ Split

SplitSpec == RagInit /\ [][SplitNext]_vars

(* --------------------------- consumer loop ----------------------------- *)
\* channel.set_qos(prefetch_count=4)
PREFETCH_COUNT == 4

\* number of tasks that arrive on chat.generate
MaxArrivals == 6

\* a task arrives on the chat.generate queue
Arrive ==
  /\ produced < MaxArrivals
  /\ genQ' = Append(genQ, [t |-> produced + 1, hop |-> 0, hdr |-> JNull, body |-> JsonBody(JObj(Base))])
  /\ produced' = produced + 1
  /\ UNCHANGED <<retryQ, dlq, generated, pc, cur, openai_client, rag_default_on, ragHits,
                 handlers, defs, last, clock, Knowledge, prefetched>>

\* the broker hands the next message to the consumer while fewer than
\* prefetch_count deliveries are unacknowledged
BrokerDeliver ==
  /\ genQ # <<>>
  /\ Len(prefetched) < PREFETCH_COUNT
  /\ prefetched' = Append(prefetched, Head(genQ))
  /\ genQ' = Tail(genQ)
  /\ UNCHANGED <<retryQ, dlq, generated, produced, pc, cur, openai_client, rag_default_on, ragHits,
                 handlers, defs, last, clock, Knowledge>>

\* `async for msg in queue_iter` yields the oldest delivery and the loop body
\* awaits _handle_message, which runs up to its await of the provider
TakeNext ==
  /\ pc = "idle"
  /\ prefetched # <<>>
  /\ cur' = [NoDelivery EXCEPT !.status = "handling", !.t = Head(prefetched).t,
                               !.body = Head(prefetched).body, !.orchCalled = TRUE]
  /\ pc' = "request1"
  /\ UNCHANGED <<genQ, retryQ, dlq, generated, produced, openai_client, rag_default_on, ragHits,
                 handlers, defs, last, clock, Knowledge, prefetched>>

\* the awaited _handle_message returns or raises and the except branches
\* have run
HandlerEnds ==
  /\ pc = "request1"
  /\ \E f \in {"none", "transient", "permanent"} :
       cur' = [cur EXCEPT !.failure = f, !.orchReturned = (f = "none")]
  /\ pc' = "ack"
  /\ UNCHANGED <<genQ, retryQ, dlq, generated, produced, openai_client, rag_default_on, ragHits,
                 handlers, defs, last, clock, Knowledge, prefetched>>

\* msg.process() exits: the delivery is acknowledged and the loop iterates
AckDelivery ==
  /\ pc = "ack"
  /\ cur' = [cur EXCEPT !.status = "acked"]
  /\ prefetched' = Tail(prefetched)
  /\ pc' = "idle"
  /\ UNCHANGED <<genQ, retryQ, dlq, generated, produced, openai_client, rag_default_on, ragHits,
                 handlers, defs, last, clock, Knowledge>>

ConsumerNext ==
  \/ Arrive
  \/ BrokerDeliver
  \/ TakeNext
  \/ HandlerEnds
  \/ AckDelivery

ConsumerSpec == Init /\ [][ConsumerNext]_vars

(* ------------------------------ rag.query ----------------------------- *)
\* one array of the store's query result: the key is absent or None, the
\* outer list is empty, or it holds the list for the single query
Absent == [kind |-> "absent"]
OuterEmpty == [kind |-> "outer_empty"]
ForQuery(items) == [kind |-> "for_query", items |-> items]

\* (results.get(key) or [[default]])[0]
FirstOr(arr, default) == IF arr.kind = "for_query" THEN arr.items ELSE <<default>>

\* the store's answer with n hits; each array may be missing
StoreIds(n) == [i \in 1..n |-> JStr("id" \o ToString(i))]
StoreDocuments(n) == [i \in 1..n |-> "doc" \o ToString(i)]
StoreDistances(n) == [i \in 1..n |-> JInt(i)]
StoreMetadatas(n) == [i \in 1..n |-> JObj([chunk_index |-> JInt(i)])]

Shapes(items) == {Absent, OuterEmpty, ForQuery(items)}

StoreResults ==
  UNION {[ids : Shapes(StoreIds(n)), documents : Shapes(StoreDocuments(n)),
          distances : Shapes(StoreDistances(n)), metadatas : Shapes(StoreMetadatas(n))] :
           n \in 0..MaxHits}

\* how the awaited calls of query end: embeddings.create raises, the store's
\* query raises, or the store answers
QueryReplies == {[kind |-> "embed_fails"], [kind |-> "store_fails"]}
                  \cup {[kind |-> "results", results |-> res] : res \in StoreResults}

\* the loop over the parallel arrays
RetrievedChunks(res) ==
  LET ids == FirstOr(res.ids, JNull)
      docs == FirstOr(res.documents, "")
      scores == FirstOr(res.distances, JNull)
      metas == FirstOr(res.metadatas, JNull)
  IN [i \in 1..Len(docs) |->
        [id |-> IF i <= Len(ids) THEN ids[i] ELSE JNull,
         content |-> docs[i],
         score |-> IF i <= Len(scores) THEN scores[i] ELSE JNull,
         metadata |-> IF i <= Len(metas) THEN metas[i] ELSE JNull]]

QueryOutcome(error, results) ==
  [raised |-> error # "none", error |-> error, results |-> results, count |-> Len(results)]

\* RAGService.query
rag_query(isConnected, hasEmb, reply) ==
  IF ~isConnected THEN QueryOutcome("no_store", <<>>)
  ELSE IF ~hasEmb THEN QueryOutcome("no_embed_client", <<>>)
  ELSE IF reply.kind # "results" THEN QueryOutcome(reply.kind, <<>>)
  ELSE QueryOutcome("none", RetrievedChunks(reply.results))

\* one call of query
Query ==
  /\ \E reply \in QueryReplies :
       last' = [op |-> "query", reply |-> reply, out |-> rag_query(connected, emb_client, reply)]
  /\ UNCHANGED <<genQ, retryQ, dlq, generated, produced, pc, cur, openai_client, rag_default_on,
                 ragHits, handlers, defs, clock, Knowledge, prefetched>>

QueryNext ==
  \/ Query

QuerySpec == RagInit /\ [][QueryNext]_vars

(* ------------------------- offered functions -------------------------- *)
\* chat_with_functions called in a process whose registry holds the
\* built-in functions, and in one whose registry is empty
OfferInit ==
  /\ genQ = <<>>
  /\ retryQ = <<>>
  /\ dlq = <<>>
  /\ generated = <<>>
  /\ produced = 0
  /\ pc = "idle"
  /\ cur = NoDelivery
  /\ openai_client = TRUE
  /\ rag_default_on = TRUE
  /\ ragHits = 1
  /\ \/ handlers = StartupHandlers /\ defs = StartupDefs
     \/ handlers = EmptyMap /\ defs = <<>>
  /\ last = NoCall
  /\ clock = 0
  /\ collection = EmptyMap
  /\ connected = TRUE
  /\ emb_client = TRUE
  /\ ingests = 0
  /\ prefetched = <<>>

OfferNext ==
  \/ ChatWithFunctions

OfferSpec == OfferInit /\ [][OfferNext]_vars

(* ------------------------- conversation building ---------------------- *)
\* longest history of a task
MaxHistory == 3

\* history entries: well-formed, a role of white space only, a padded role,
\* a content that is a number, null, a string instead of an object, an object
\* without content
HistoryEntries ==
  {JObj([role |-> JStr("user"), content |-> JStr("h1")]),
   JObj([role |-> JStr(" "), content |-> JStr("h2")]),
   JObj([role |-> JStr(" user "), content |-> JStr("h3")]),
   JObj([role |-> JStr("assistant"), content |-> JInt(5)]),
   JNull,
   JStr("x"),
   JObj([role |-> JStr("assistant")])}

RECURSIVE SeqsUpTo(_, _)
SeqsUpTo(S, n) ==
  IF n = 0 THEN {<<>>}
  ELSE SeqsUpTo(S, n - 1) \cup {Append(q, e) : q \in SeqsUpTo(S, n - 1), e \in S}

\* the history field of a task's JSON: absent, not a list, or a list of at
\* most MaxHistory entries
HistoryInputs == {JNull, JStr("x")} \cup {JList(q) : q \in SeqsUpTo(HistoryEntries, MaxHistory)}

\* the consumer builds the conversation of one task; the conversation is a
\* function of the task alone, so a behaviour builds one
Build ==
  /\ last = NoCall
  /\ \E h \in HistoryInputs :
       LET task == from_json(With("history", h))
       IN last' = [op |-> "build", history |-> h, task |-> task, messages |-> BuildMessages(task)]
  /\ UNCHANGED <<genQ, retryQ, dlq, generated, produced, pc, cur, openai_client, rag_default_on,
                 ragHits, handlers, defs, clock, Knowledge, prefetched>>

ConversationInit == RagInit /\ connected /\ emb_client

ConversationNext ==
  \/ Build

ConversationSpec == ConversationInit /\ [][ConversationNext]_vars

(* ------------------------ claims, continued ---------------------------- *)
\* C12: whenever the first reply asks for a function call and the dispatch
\* has run, REQUEST_2 is issued, whatever the dispatch produced; a dispatch
\* outcome never makes chat_with_functions raise.
C12_DispatchNeverFatal ==
  (cur.reply1.kind = "function_call" /\ cur.nDispatch = 1 /\ pc # "request2")
    => (cur.nCompletion = 2 /\ cur.trace = OrchPath)

\* C13: the model-support check comes before any completion request or
\* dispatch; with an unsupported model the orchestrator fails having issued
\* no completion request and no dispatch, and a completion request or a
\* dispatch is only ever made after the check has passed.
C13_ModelCheckFirst ==
  /\ (cur.nCompletion > 0 \/ cur.nDispatch > 0)
       => (cur.verdict = "supported" /\ cur.trace[1] = "check")
  /\ cur.verdict = "unsupported"
       => /\ cur.nCompletion = 0 /\ cur.nDispatch = 0
          /\ ~cur.orchReturned
          /\ cur.failure = "permanent"
          /\ cur.trace = <<"check">>

C13_Witness ==
  /\ cur.status = "acked"
  /\ openai_client
  /\ cur.verdict = "unsupported"
  /\ TaskOf(cur.body).model = "gpt-4.1-nano"
  /\ cur.nModels = 1 /\ cur.nCompletion = 0
  /\ Len(PubsTo(ROUTING_DLQ)) = 1

\* C15: the usage the orchestrator returns is the component-wise sum of the
\* usages of the rounds issued (one or two); rounds (10,5,15) and (8,4,12)
\* give (18,9,27); total = prompt + completion carries over to the sum.
RoundUsages ==
  IF cur.nCompletion = 2 THEN <<cur.reply1.usage, cur.reply2.usage>> ELSE <<cur.reply1.usage>>

RECURSIVE SumField(_, _)
SumField(us, k) == IF us = <<>> THEN 0 ELSE Head(us)[k] + SumField(Tail(us), k)

C15_UsageAdditive ==
  cur.orchReturned =>
    /\ cur.nCompletion \in {1, 2}
    /\ \A k \in {"prompt_tokens", "completion_tokens", "total_tokens"} :
         cur.resp.usage[k] = SumField(RoundUsages, k)
    /\ (cur.nCompletion = 2 /\ cur.reply1.usage = Usage(10, 5, 15) /\ cur.reply2.usage = Usage(8, 4, 12))
         => cur.resp.usage = Usage(18, 9, 27)
    /\ (\A i \in 1..Len(RoundUsages) :
          RoundUsages[i].total_tokens = RoundUsages[i].prompt_tokens + RoundUsages[i].completion_tokens)
         => cur.resp.usage.total_tokens = cur.resp.usage.prompt_tokens + cur.resp.usage.completion_tokens

C15_Witness ==
  /\ cur.status = "acked" /\ cur.orchReturned /\ cur.nCompletion = 2
  /\ cur.reply1.usage = Usage(10, 5, 15) /\ cur.reply2.usage = Usage(8, 4, 12)
  /\ cur.resp.usage = Usage(18, 9, 27)

\* C16: the published GeneratedEvent carries the task's request_id,
\* session_id, user_id and model, the orchestrator's final response text, and
\* the single-round usage without a function call, round 1 + round 2 with
\* one; it has no field for the function call or its result.
FinalText ==
  IF cur.reply1.kind = "function_call"
    THEN (IF cur.reply2.content = "" THEN DefaultFinalText ELSE cur.reply2.content)
    ELSE cur.reply1.content

C16_EventCarriesTask ==
  \A i \in 1..Len(cur.pubs) :
    cur.pubs[i].topic = ROUTING_GENERATED =>
      LET ev == cur.pubs[i].payload
          task == TaskOf(cur.body)
      IN /\ DOMAIN ev = {"request_id", "session_id", "user_id", "model", "response", "usage"}
         /\ ev.request_id = task.request_id
         /\ ev.session_id = task.session_id
         /\ ev.user_id = task.user_id
         /\ ev.model = task.model
         /\ ev.response = FinalText
         /\ cur.reply1.kind = "direct" => ev.usage = cur.reply1.usage
         /\ cur.reply1.kind = "function_call"
              => \A k \in DOMAIN ev.usage : ev.usage[k] = cur.reply1.usage[k] + cur.reply2.usage[k]

C16_Witness ==
  /\ cur.status = "acked"
  /\ cur.reply1.kind = "function_call"
  /\ Len(cur.pubs) = 1
  /\ cur.pubs[1].topic = ROUTING_GENERATED /\ cur.pubs[1].ok
  /\ cur.pubs[1].payload.request_id = "r1"
  /\ cur.pubs[1].payload.user_id = 7
  /\ cur.pubs[1].payload.usage = Usage(18, 9, 27)

\* C14: without completion credentials chat_with_functions and
\* chat_completion fail before any network call: no model-list request, no
\* completion request, no embedding request, no vector-store request.
NoNetworkCall(o) ==
  o.nModels = 0 /\ o.nCompletion = 0 /\ o.nEmbed = 0 /\ o.nStore = 0 /\ o.nDispatch = 0

C14_NoCredentialsNoNetwork ==
  /\ (last.op \in {"chat_completion", "chat_with_functions"} /\ ~openai_client)
       => (last.out.raised /\ NoNetworkCall(last.out))
  /\ (cur.verdict # "none" /\ ~openai_client)
       => (~cur.orchReturned /\ cur.failure = "permanent"
           /\ cur.nModels = 0 /\ cur.nCompletion = 0 /\ cur.nEmbed = 0 /\ cur.nStore = 0)

C14_Witness ==
  /\ ~openai_client
  /\ last.op = "chat_completion"
  /\ last.model = "gpt-4.1-nano" /\ last.use_rag /\ last.messages # <<>> /\ last.rag = "ok"
  /\ last.out.error = "no_credentials"

C18_MalformedArguments ==
  (last.op = "execute" /\ last.call.name \in DOMAIN handlers) =>
    /\ last.call.arguments = "{bad"
         => /\ ~last.out.raised
            /\ ~last.out.res.success
            /\ last.out.res.error # NoError
            /\ last.out.res.error.prefix = ParseFailedText
            /\ last.out.res.execution_time >= 0
            /\ ~last.out.invoked
    /\ last.call.arguments = ""
         => /\ ~last.out.raised
            /\ last.out.invoked
            /\ ~last.out.parsed
            /\ ParseArgs(last.call.arguments) = JObj(EmptyMap)
            /\ last.out.res.error.kind = "text" => last.out.res.error.prefix # ParseFailedText

C18_Witness ==
  /\ last.op = "execute"
  /\ last.call.name \in DOMAIN handlers
  /\ last.call.arguments = "{bad"
  /\ ~last.out.res.success
  /\ last.out.res.execution_time = 1

C18_WitnessEmpty ==
  /\ last.op = "execute"
  /\ last.call.name \in DOMAIN handlers
  /\ last.call.arguments = ""
  /\ last.out.invoked /\ last.out.res.success

\* C19 as stated: execute on an unregistered name gives success = false and
\* the error "function not registered: <name>", without parsing the arguments
\* and without calling a handler.
C19_NotRegisteredEnglish ==
  (last.op = "execute" /\ last.call.name \notin DOMAIN handlers) =>
    /\ ~last.out.res.success
    /\ last.out.res.error = Text(EnglishNotRegisteredText, last.call.name)
    /\ ~last.out.parsed /\ ~last.out.invoked

\* C19, amended: the error is the text 函数未注册 followed by ": " and the
\* called name; the rest as stated.
C19_NotRegistered ==
  (last.op = "execute" /\ last.call.name \notin DOMAIN handlers) =>
    /\ ~last.out.raised
    /\ ~last.out.res.success
    /\ last.out.res.result = NoneValue
    /\ last.out.res.error = Text(NotRegisteredText, last.call.name)
    /\ ~last.out.parsed /\ ~last.out.invoked

C19_Witness ==
  /\ last.op = "execute"
  /\ last.call = [name |-> "nope", arguments |-> "{bad"]
  /\ "web_search" \in DOMAIN handlers
  /\ last.out.res.error = Text(NotRegisteredText, "nope")

\* C20: for every registered handler that completes successfully (a plain
\* function, a coroutine function, or a callable returning an awaitable) the
\* result of the success = true outcome is the handler's final return value,
\* never a computation still to be awaited.
C20_UniformDispatch ==
  (/\ last.op = "execute"
   /\ last.call.name \in DOMAIN handlers
   /\ ~ParseArgsRaises(last.call.arguments)
   /\ ~BindRaises(handlers[last.call.name], ParseArgs(last.call.arguments))
   /\ last.beh.outcome = "returns")
    => /\ last.out.res.success
       /\ last.out.res.result = last.beh.value
       /\ last.out.res.result # PendingValue

\* C21: after any sequence of register calls the registry holds one entry
\* per distinct name: the names with a handler are the names with a
\* definition, list() has one descriptor per name, carrying the definition
\* registered last, in the order the names were first registered, and execute
\* calls the handler registered last for the name.
NameSeq(q) == [i \in 1..Len(q) |-> q[i].name]
ListedNames == {defs[i].name : i \in 1..Len(defs)}

C21_RegistryState ==
  /\ ListedNames = DOMAIN handlers
  /\ Len(list_defs_as_openai(defs)) = Cardinality(DOMAIN handlers)
  /\ \A i, j \in 1..Len(defs) : defs[i].name = defs[j].name => i = j
  /\ last.op = "register"
       => /\ handlers[last.name] = last.handler
          /\ \E i \in 1..Len(defs) :
               list_defs_as_openai(defs)[i] =
                 [name |-> last.name, description |-> last.definition.description]
  /\ (last.op = "execute" /\ last.out.invoked) => last.out.handler = handlers[last.call.name]

C21_RegisterStep ==
  /\ last'.op = "register"
       => /\ handlers'[last'.name] = last'.handler
          /\ \A n \in (DOMAIN handlers) \ {last'.name} : handlers'[n] = handlers[n]
          /\ NameSeq(defs') = IF last'.name \in ListedNames THEN NameSeq(defs)
                              ELSE Append(NameSeq(defs), last'.name)
          /\ \A i \in 1..Len(defs) : defs[i].name # last'.name => defs'[i] = defs[i]
  /\ last'.op = "execute" => (handlers' = handlers /\ defs' = defs)

C21_LastWriterWins == [](C21_RegistryState) /\ [][C21_RegisterStep]_vars

\* the name listed first was registered again after the second one
C21_Witness ==
  /\ Len(defs) = 2
  /\ last.op = "register" /\ last.name = defs[1].name
  /\ defs[1].description = 2
  /\ handlers[last.name].tag = 2

\* C22: with chunk_size c > overlap o >= 0 and stride s = c - o, split of a
\* text of length L gives ceil(L / s) chunks, chunk k being text[k*s : k*s + c]
\* and at most c long; the first s characters of every chunk, concatenated,
\* are the text; with c = 1000 and o = 200 there are ceil(L / 800) chunks of
\* at most 1000 characters.
CeilDiv(a, b) == (a + b - 1) \div b

RECURSIVE Concat(_)
Concat(q) == IF q = <<>> THEN <<>> ELSE Head(q) \o Concat(Tail(q))

C22_SplitWindows ==
  (last.op = "split" /\ last.chunk_size > last.overlap) =>
    LET L == Len(last.text)
        c == last.chunk_size
        st == last.chunk_size - last.overlap
        n == Len(last.chunks)
    IN /\ n = CeilDiv(L, st)
       /\ \A k \in 0..(n - 1) :
            /\ last.chunks[k + 1] = Slice(last.text, k * st, k * st + c)
            /\ Len(last.chunks[k + 1]) <= c
       /\ Concat([k \in 1..n |-> Slice(last.chunks[k], 0, st)]) = last.text
       /\ (c = 1000 /\ last.overlap = 200)
            => (n = CeilDiv(L, 800) /\ \A k \in 1..n : Len(last.chunks[k]) <= 1000)

C22_Witness ==
  /\ last.op = "split"
  /\ Len(last.text) = 801 /\ last.chunk_size = 1000 /\ last.overlap = 200
  /\ Len(last.chunks) = 2
  /\ Len(last.chunks[2]) = 1

C22_WitnessOverlap ==
  /\ last.op = "split"
  /\ Len(last.text) = 6 /\ last.chunk_size = 3 /\ last.overlap = 1
  /\ Len(last.chunks) = 3
  /\ last.chunks[2] = <<99, 100, 101>>

\* C23: ingesting the same text again with the same doc_id and namespace
\* computes the same chunk ids, returns the same {doc_id, chunk_count} and
\* leaves the (id, document, metadata) entries of the store as the first
\* ingest left them.
Entries(store) ==
  {[id |-> id, document |-> store[id].document, metadata |-> store[id].metadata] : id \in DOMAIN store}

Repeated ==
  /\ last.op = "ingest"
  /\ last.prev.op = "ingest"
  /\ last.prev.req = last.req
  /\ ~last.prev.out.raised
  /\ ~last.out.raised

C24_NamespacesApart ==
  last.op = "ingest" =>
    \A id \in DOMAIN last.before :
      last.before[id].metadata.namespace # NsOrDefault(last.req.namespace)
        => (id \in DOMAIN collection /\ collection[id] = last.before[id])

\* C25: ingest of a text that splits into no chunk returns {doc_id or "", 0}
\* with no embedding call and no store call, whatever the state of the
\* service, and leaves the store unchanged.
C25_EmptyIngest ==
  (last.op = "ingest" /\ split_text(last.req.text, DefaultChunkSize, DefaultChunkOverlap) = <<>>)
    => /\ ~last.out.raised
       /\ last.out.result = [doc_id |-> last.req.doc_id, chunk_count |-> 0]
       /\ last.out.nEmbed = 0 /\ last.out.nUpsert = 0
       /\ collection = last.before

\* C26: context injection gives the caller's messages unchanged (retrieval
\* off, failed or without result) or one system message followed by the
\* caller's messages, all of them, unmodified and in order; N results give
\* one system message with N entries numbered 1..N in result order.
RECURSIVE NumberedEntries(_, _)
NumberedEntries(i, n) ==
  IF i > n THEN ""
  ELSE "[" \o ToString(i) \o "] ns=default, doc=d, idx=" \o ToString(Hit(i).chunk_index) \o "\n"
       \o Hit(i).content \o (IF i < n THEN "\n\n" ELSE "") \o NumberedEntries(i + 1, n)

InjectionRan == last.op = "chat_completion" /\ last.out.nCompletion = 1

ResultsReturned ==
  IF Effective(last.use_rag, rag_default_on, last.messages) /\ last.rag = "ok"
    THEN QueryHits(ragHits, TopK(last.rag_top_k)) ELSE 0

C26_ContextPrepended ==
  InjectionRan =>
    IF ResultsReturned = 0
      THEN last.sent = last.messages
      ELSE /\ Len(last.sent) = Len(last.messages) + 1
           /\ last.sent[1].role = "system"
           /\ last.sent[1].content = ContextHeader \o NumberedEntries(1, ResultsReturned)
           /\ Tail(last.sent) = last.messages

C26_Witness ==
  /\ InjectionRan
  /\ ResultsReturned = 2
  /\ Len(last.messages) = 2
  /\ Len(last.sent) = 3
  /\ last.sent[3] = ChatMsg("user", "hi")

\* C27: on shutdown the consumer stops pulling deliveries and lets the
\* delivery in hand run to its outcome and acknowledgement; a stopped
\* consumer never leaves a delivery interrupted between receipt and
\* acknowledgement.
C27_ShutdownDrains ==
  pc = "stopped" => (cur.status \in {"none", "acked"} /\ cur.pubsAtAck = Len(cur.pubs))

\* C28: what a delivery publishes is determined by the delivered message and
\* the collaborators' replies to it alone: the same message with the same
\* replies gives the same GeneratedEvent or the same retry or dead-letter
\* message, whatever was handled before.
ExpectedEvent ==
  LET task == TaskOf(cur.body)
  IN [request_id |-> task.request_id, session_id |-> task.session_id, user_id |-> task.user_id,
      model |-> task.model, response |-> FinalText,
      usage |-> IF cur.reply1.kind = "function_call"
                  THEN Usage(cur.reply1.usage.prompt_tokens + cur.reply2.usage.prompt_tokens,
                             cur.reply1.usage.completion_tokens + cur.reply2.usage.completion_tokens,
                             cur.reply1.usage.total_tokens + cur.reply2.usage.total_tokens)
                  ELSE cur.reply1.usage]

ExpectedFailureMessage ==
  IF cur.failure = "none" \/ DecodeRaises(cur.body) THEN <<>>
  ELSE IF cur.failure = "permanent"
    THEN <<[topic |-> ROUTING_DLQ, payload |-> Decode(cur.body)]>>
  ELSE LET n == (IF cur.hdr = JNull THEN 0 ELSE IntOf(cur.hdr)) + 1
       IN <<[topic |-> IF n <= RetryCeiling THEN ROUTING_RETRY ELSE ROUTING_DLQ,
             payload |-> JObj(("x-retry-count" :> JInt(n)) @@ Decode(cur.body).f)]>>

ExpectedMessages ==
  (IF cur.orchReturned THEN <<[topic |-> ROUTING_GENERATED, payload |-> ExpectedEvent]>> ELSE <<>>)
  \o ExpectedFailureMessage

C29_FollowUpConversation ==
  (last.op = "chat_with_functions" /\ last.out.nCompletion = 2) =>
    /\ last.params2.messages =
         last.params1.messages
           \o <<[role |-> "assistant", content |-> "",
                 function_call |-> [name |-> last.reply1.name, arguments |-> last.reply1.arguments]],
                [role |-> "function", name |-> last.reply1.name,
                 content |-> json_dumps(last.result)]>>
    /\ "functions" \notin DOMAIN last.params2

\* C30, as stated: the conversation is never empty; with a non-empty history
\* it is the history entries that have a non-empty role and a non-empty
\* content, in order, or the single user message when there is none; without
\* history it is the single user message.
\* the text of a field of an entry; empty when the entry is not an object or
\* the field is absent or empty
FieldText(it, k) ==
  IF it.t = "obj" /\ k \in DOMAIN it.f /\ Truthy(it.f[k]) THEN PyStr(it.f[k]) ELSE ""

HasRoleAndContent(it) == FieldText(it, "role") # "" /\ FieldText(it, "content") # ""

SingleUserMessage == <<[role |-> "user", content |-> last.task.last_user_message]>>

HistoryGiven == last.history.t = "list" /\ last.history.q # <<>>

EntriesWithRoleAndContent ==
  LET sel == SelectSeq(last.history.q, HasRoleAndContent)
  IN [i \in 1..Len(sel) |-> [role |-> FieldText(sel[i], "role"),
                             content |-> FieldText(sel[i], "content")]]

C30_HistorySubsequence ==
  last.op = "build" =>
    /\ last.messages # <<>>
    /\ last.messages =
         IF HistoryGiven /\ EntriesWithRoleAndContent # <<>>
           THEN EntriesWithRoleAndContent ELSE SingleUserMessage

\* C30, amended: the entries kept are those whose role is non-empty after
\* white space is trimmed and whose content is non-empty; each becomes a
\* message with the trimmed role and the content.
HasTrimmedRoleAndContent(it) ==
  Strip(FieldText(it, "role")) # "" /\ FieldText(it, "content") # ""

EntriesWithTrimmedRole ==
  LET sel == SelectSeq(last.history.q, HasTrimmedRoleAndContent)
  IN [i \in 1..Len(sel) |-> [role |-> Strip(FieldText(sel[i], "role")),
                             content |-> FieldText(sel[i], "content")]]

C30_TrimmedHistorySubsequence ==
  last.op = "build" =>
    /\ last.messages # <<>>
    /\ last.messages =
         IF HistoryGiven /\ EntriesWithTrimmedRole # <<>>
           THEN EntriesWithTrimmedRole ELSE SingleUserMessage

\* a history with a white-space role between two entries that are kept, one
\* with a padded role and one with a number as content
C30_Witness ==
  /\ last.op = "build"
  /\ HistoryGiven
  /\ Len(last.history.q) = 3
  /\ last.history.q[2] = JObj([role |-> JStr(" "), content |-> JStr("h2")])
  /\ last.messages = <<[role |-> "user", content |-> "h3"], [role |-> "assistant", content |-> "5"]>>

\* every entry of the history is malformed and the single user message is used
C30_WitnessFallback ==
  /\ last.op = "build"
  /\ HistoryGiven
  /\ last.history.q = <<JStr("x"), JNull, JObj([role |-> JStr("assistant")])>>
  /\ last.messages = <<[role |-> "user", content |-> "hi"]>>

\* C31: when the caller supplied no list and no other policy, REQUEST_1
\* offers the registry's advertised list with the policy "auto"; when the
\* list to offer is empty, REQUEST_1 carries neither a function list nor a
\* function-call policy.
Request1Sent == last.op = "chat_with_functions" /\ last.out.nCompletion >= 1

AdvertisedList == [i \in 1..Len(defs) |-> [name |-> defs[i].name, description |-> defs[i].description]]

CallerGaveNoList == ~last.functions.given \/ last.functions.list = <<>>

CallerGaveNoPolicy == last.function_call \in {"", "auto"}

C31_OffersRegistryList ==
  Request1Sent =>
    /\ (CallerGaveNoList /\ CallerGaveNoPolicy /\ AdvertisedList # <<>>) =>
         /\ "functions" \in DOMAIN last.params1 /\ last.params1.functions = AdvertisedList
         /\ "function_call" \in DOMAIN last.params1 /\ last.params1.function_call = "auto"
    /\ (CallerGaveNoList /\ AdvertisedList = <<>>) =>
         /\ "functions" \notin DOMAIN last.params1
         /\ "function_call" \notin DOMAIN last.params1

\* the request leaves the policy out and the registry's list is offered
C31_Witness ==
  /\ Request1Sent
  /\ ~last.functions.given
  /\ last.function_call = ""
  /\ Len(defs) = 5
  /\ Len(last.params1.functions) = 5
  /\ last.params1.function_call = "auto"

\* nothing is registered and the caller's list is empty, with a policy given
C31_WitnessEmpty ==
  /\ Request1Sent
  /\ defs = <<>>
  /\ last.functions = GivenList(<<>>)
  /\ last.function_call = "none"
  /\ DOMAIN last.params1 = {"model", "messages"}

\* C32: for chunk_size >= 1 and overlap >= 0, every chunk but the final one
\* has length exactly chunk_size, every chunk is non-empty, overlap >=
\* chunk_size gives one chunk per character, and empty text gives no chunk.
C32_FixedSizeWindows ==
  last.op = "split" =>
    LET n == Len(last.chunks)
    IN /\ \A k \in 1..n : Len(last.chunks[k]) >= 1
       /\ \A k \in 1..(n - 1) : Len(last.chunks[k]) = last.chunk_size
       /\ last.overlap >= last.chunk_size => n = Len(last.text)
       /\ last.text = <<>> => last.chunks = <<>>

\* C33: query returns one RetrievedChunk per hit the store returned, in rank
\* order, with id, content, score and metadata from the same rank position,
\* and count equal to the number of results; when the store returns no hits
\* (empty or absent arrays) results is empty and count is 0.
Answered == last.op = "query" /\ ~last.out.raised

ItemsOf(arr) == IF arr.kind = "for_query" THEN arr.items ELSE <<>>

HitCount ==
  LET res == last.reply.results
  IN Max(Max(Len(ItemsOf(res.ids)), Len(ItemsOf(res.documents))),
         Max(Len(ItemsOf(res.distances)), Len(ItemsOf(res.metadatas))))

C33_OneChunkPerHit ==
  Answered =>
    LET res == last.reply.results
        out == last.out
    IN /\ Len(out.results) = HitCount
       /\ out.count = Len(out.results)
       /\ \A i \in 1..Len(out.results) :
            /\ i <= Len(ItemsOf(res.ids)) => out.results[i].id = res.ids.items[i]
            /\ i <= Len(ItemsOf(res.documents)) => out.results[i].content = res.documents.items[i]
            /\ i <= Len(ItemsOf(res.distances)) => out.results[i].score = res.distances.items[i]
            /\ i <= Len(ItemsOf(res.metadatas)) => out.results[i].metadata = res.metadatas.items[i]

\* C34: at most prefetch_count (4) deliveries are in flight, and each is
\* handled as an independent unit of work: while one delivery waits on a
\* collaborator, another in-flight delivery can be taken up.
C34_IndependentUnits ==
  /\ Len(prefetched) <= PREFETCH_COUNT
  /\ (pc = "request1" /\ Len(prefetched) >= 2) => ENABLED TakeNext

CompletedPubs == SelectSeq(cur.pubs, LAMBDA p : p.ok)

Completed == last.op = "ingest" /\ ~last.out.raised /\ last.out.result.chunk_count > 0

ChunksOf(text) == split_text(text, DefaultChunkSize, DefaultChunkOverlap)

HeldFor(d) == {id \in DOMAIN collection : collection[id].metadata.doc_id = d}

C36_DocumentChunksExact ==
  Completed =>
    LET chunks == ChunksOf(last.req.text)
        held == HeldFor(last.out.result.doc_id)
    IN /\ Cardinality(held) = Len(chunks)
       /\ {collection[id].document : id \in held} = {chunks[i] : i \in 1..Len(chunks)}
       /\ last.req.doc_id = <<>> =>
            \A id \in DOMAIN last.before :
              \/ collection[id] = last.before[id]
              \/ \E i \in 1..Len(chunks) : last.before[id].document = chunks[i]

\* C37: a non-empty ingest makes one embedding call over all chunks in order
\* and then one upsert whose ids, documents, metadatas and embeddings all
\* have length chunk_count; if the embedding call fails no upsert is issued
\* and the store is unchanged; the caller's extra metadata overrides the
\* generated metadata on a key collision.
NonEmptyIngest ==
  /\ last.op = "ingest"
  /\ connected /\ emb_client
  /\ ChunksOf(last.req.text) # <<>>

C37_OneEmbedOneUpsert ==
  NonEmptyIngest =>
    LET chunks == ChunksOf(last.req.text)
        calls == last.out.calls
    IN /\ Len(calls) >= 1
       /\ calls[1] = [call |-> "embed", input |-> chunks]
       /\ IF last.out.error = "embed_error"
            THEN Len(calls) = 1 /\ collection = last.before
            ELSE /\ Len(calls) = 2
                 /\ calls[2].call = "upsert"
                 /\ calls[2].documents = chunks
                 /\ Len(calls[2].ids) = Len(chunks)
                 /\ Len(calls[2].metadatas) = Len(chunks)
                 /\ Len(calls[2].embeddings) = Len(chunks)
                 /\ \A i \in 1..Len(chunks) : \A k \in DOMAIN last.req.extra_metadata :
                      calls[2].metadatas[i][k] = last.req.extra_metadata[k]
                 /\ ~last.out.raised => last.out.result.chunk_count = Len(chunks)

\* the caller's chunk_index is stored in place of the generated one
C37_Witness ==
  /\ NonEmptyIngest
  /\ ~last.out.raised
  /\ last.req.extra_metadata = [chunk_index |-> 9]
  /\ \E id \in DOMAIN collection : collection[id].metadata.chunk_index = 9

\* the embedding call of a two-chunk ingest fails after an earlier ingest
C37_WitnessEmbedFails ==
  /\ NonEmptyIngest
  /\ last.out.error = "embed_error"
  /\ Len(last.out.calls[1].input) = 2
  /\ collection # EmptyMap

====
